---- MODULE Spec2Model ----
(***************************************************************************)
(* A model of the parental_monitor capture-to-storage pipeline:            *)
(*   - keystroke_capture/linux.py : LinuxKeyCapture (segmenter, filter,    *)
(*     inactivity watchdog, stop)                                          *)
(*   - logger.py : the encrypted daily log store                           *)
(*   - screenshot_capture : one scheduler tick (capture + save)            *)
(* Strings are sequences of one-character strings, so that substring,      *)
(* strip, lower and re.split are computed, not assumed.                    *)
(***************************************************************************)
EXTENDS Integers, Sequences, FiniteSets, TLC

\* ------------------------------------------------------------------ bounds
MaxKeysSeq == 6      \* key events of a listener-only run
MaxKeysFilter == 4   \* key events of a filter run
MaxKeys == 3         \* key events of a concurrent capture session
MaxTime == 4         \* clock ticks of a concurrent capture session
MaxDays == 1         \* midnights the store's clock crosses
MaxSec == 1          \* seconds the store's clock advances within a day
MaxCalls == 2        \* log_keyword calls and scheduler ticks of a store run
MaxWriterCalls == 3  \* log_keyword calls of concurrent writers

\* ------------------------------------------------------- program constants
\* One clock unit is the watchdog period, buffer_timeout_seconds / 2.
buffer_timeout_units == 2
sleep_units == 1
MinWordLen == 2

\* -------------------------------------------------------------- characters
Chars == {"a", "B"}          \* key.char values the listener delivers
SPACE == "Key.space"
ENTER == "Key.enter"
TAB == "Key.tab"
SHIFT == "Key.shift"              \* a named special key without a char
Keys == Chars \cup {SPACE, ENTER, TAB, SHIFT}
Delimiters == {SPACE, ENTER, TAB}

\* str.isspace() / \s on the characters a buffer can hold
IsSpace(c) == c = " "

\* str.lower(), one character
LowerChar(c) ==
  CASE c = "A" -> "a"
    [] c = "B" -> "b"
    [] c = "C" -> "c"
    [] OTHER -> c

\* str.lower()
Lower(s) == [i \in 1..Len(s) |-> LowerChar(s[i])]

\* str.strip(): drop leading and trailing whitespace
RECURSIVE LStrip(_)
LStrip(s) == IF s # <<>> /\ IsSpace(Head(s)) THEN LStrip(Tail(s)) ELSE s

RECURSIVE RStrip(_)
RStrip(s) ==
  IF s # <<>> /\ IsSpace(s[Len(s)]) THEN RStrip(SubSeq(s, 1, Len(s) - 1)) ELSE s

Strip(s) == RStrip(LStrip(s))

\* Python's `sub in s` on strings
Contains(sub, s) ==
  \E i \in 0..(Len(s) - Len(sub)) : SubSeq(s, i + 1, i + Len(sub)) = sub

\* re.split(r'(\s+)', s): non-whitespace parts at odd positions (possibly
\* empty), the whitespace runs between them at even positions.
RECURSIVE ReSplit(_)
ReSplit(s) ==
  IF s = <<>> THEN << <<>> >>
  ELSE LET rest == ReSplit(Tail(s))
           c == Head(s)
       IN IF IsSpace(c)
          THEN IF rest[1] = <<>> /\ Len(rest) > 1
               THEN << <<>>, <<c>> \o rest[2] >> \o SubSeq(rest, 3, Len(rest))
               ELSE << <<>>, <<c>> >> \o rest
          ELSE << <<c>> \o rest[1] >> \o Tail(rest)

\* Window titles carry their length, so that title[:100] is computed.
Title(text, len) == [text |-> text, len |-> len]
NoTitle == Title("", 0)

\* ------------------------------------------------------------ environment
\* What get_active_window_info_x11 can return: (app_name, window_title).
ActiveWindows ==
  { [app |-> <<"C", "x">>, title |-> Title("LongDoc", 120)],
    [app |-> <<"v">>, title |-> Title("Unknown Title", 13)],
    [app |-> <<"u">>, title |-> Title("Error (xdotool)", 15)] }

\* keyword_filters of the configuration file, as written by the operator
IncludeConfigs == { {}, { <<"C">> } }
ExcludeConfigs == { {}, { <<"a", "B">> } }

\* How one log_keyword call can end: written, ensure_daily_log_dir raising,
\* or the append raising.
StoreOutcomes == {"ok", "mkdir_fails", "write_fails"}

Days == 0..MaxDays
NoKey == "None"
InstallKey == "K1"
NoFile == "absent"
NoShots == [p \in {} |-> NoFile]

\* The threads that reach log_keyword through the log callback
Threads == {"listener", "watchdog", "stop"}

\* The directories a key file can be in: the configuration directory, the
\* log directory, a directory nothing creates, the working directory.
KeyDirs == {"config_dir", "log_dir", "keys_dir", "cwd"}
\* config['encryption_key_file'], by the directory it names
KeyFileSettings == {"config_dir", "log_dir", "keys_dir"}
\* What Fernet.generate_key() returns, call after call
KeyNames == << "K1", "K2", "K3", "K4" >>
Umasks == {"022", "077"}
NoKeyFile == [content |-> NoKey, mode |-> "none"]

\* What yaml.safe_load gives for eula_accepted: the booleans, a string that
\* is no YAML boolean (a quoted 'no'), or no such key
EulaValues == {"True", "False", "'no'", "missing"}
\* dict.get(key, default)
ConfigGet(value, default) == IF value = "missing" THEN default ELSE value
\* Python's truth test, as `not x` applies it: False is false, a non-empty
\* string is true
Truth(value) == value # "False"

\* config['screenshot_interval_minutes'], in tenths of a minute, and whether
\* the YAML value is a float
Intervals ==
  { [tenths |-> 10, float |-> FALSE], [tenths |-> 0, float |-> FALSE],
    [tenths |-> -10, float |-> FALSE], [tenths |-> 2, float |-> TRUE],
    [tenths |-> 50, float |-> TRUE], [tenths |-> 0, float |-> TRUE] }
NoScheduler ==
  [pc |-> "not_started", interval |-> [tenths |-> 10, float |-> FALSE], stop |-> FALSE,
   t |-> 0, chunks |-> 0, ticks |-> 0, stdout |-> <<>>, sleep |-> 0, late |-> 0,
   outcome |-> "none"]

\* The store operations that the listener side and the scheduler side run
StoreOps == {"log_keyword", "save_screenshot"}
NoReturn == [none |-> TRUE]
NoOp == [pc |-> "idle", day |-> 0, status |-> "none", ensured |-> NoReturn,
         path |-> NoReturn]
NoModes == [p \in {} |-> "none"]
NoCall == [pc |-> "idle"]
NoDecrypt == [called |-> FALSE]
\* The processes that call initialize_logger, before the call
Procs == {"agent", "decrypt_cli"}
NotInitialized ==
  [procs |-> [p \in Procs |-> [pc |-> "start", key |-> NoKey]], generated |-> 0]
\* A new LinuxKeyCapture: no character in the buffer, nothing logged
MaxWindowKeys == 3
NothingTyped == [buffer_from |-> <<>>, logged_from |-> <<>>]
\* The keystroke_capture package as imported: _capture_instance = None
MaxStarts == 3
MaxWords == 2
NoCapture ==
  [instance |-> 0, sessions |-> [i \in 1..MaxStarts |-> "none"], made |-> 0,
   delivered |-> <<>>]
\* main() about to enter its try statement: nothing started, nothing typed
EnteringTry ==
  [pc |-> "try", monitoring_active |-> FALSE, keystroke_started |-> FALSE,
   screenshot_started |-> FALSE, capture |-> "none", scheduler |-> "none",
   buffered |-> FALSE, keys |-> 0, raised |-> "none"]

\* Paths are the sequences of their components below the root.
CONFIG_FILE_NAME == "config.yaml"
ERROR_LOG_FILE == "error.log"
RootDir == <<>>
AppDir == << "opt", "parental-monitor" >>
ScriptDir == << "usr", "lib", "parental_monitor" >>
HomeDir == << "home", "kid" >>
\* os.getcwd() of the agent process
Cwds == {RootDir, AppDir, HomeDir}
\* The directories that hold a config.yaml
ConfigHolders == { {}, {AppDir}, {ScriptDir}, {HomeDir} }
\* config['log_directory']: the default, relative, or an absolute path
DefaultLogDirectory == [abs |-> FALSE, path |-> << "ParentalMonitorData" >>]
LogDirectories == {DefaultLogDirectory, [abs |-> TRUE, path |-> << "var", "pm" >>]}

\* os.path.dirname
Dirname(path) == IF path = <<>> THEN <<>> ELSE SubSeq(path, 1, Len(path) - 1)

\* os.path.abspath(rel) in the directory cwd: the path is joined to cwd
\* and normalized, '..' taking one component off (none at the root).
RECURSIVE NormPath(_, _)
NormPath(done, rest) ==
  IF rest = <<>> THEN done
  ELSE IF Head(rest) = ".." THEN NormPath(Dirname(done), Tail(rest))
  ELSE NormPath(Append(done, Head(rest)), Tail(rest))
AbsPath(cwd, rel) == NormPath(<<>>, cwd \o rel)

\* config.get_config_path(): the working directory, the package
\* directory, then the installation directory
GetConfigPath(cwd, holders) ==
  IF cwd \in holders THEN Append(cwd, CONFIG_FILE_NAME)
  ELSE IF ScriptDir \in holders THEN Append(ScriptDir, CONFIG_FILE_NAME)
  ELSE Append(AppDir, CONFIG_FILE_NAME)

\* config.load_config(): the dictionary has no 'config_file_path'
LoadConfig(log_directory) ==
  [log_directory |-> log_directory, has_config_file_path |-> FALSE,
   config_file_path |-> <<>>]

\* config_data of main(): load_config() plus 'config_file_path'
ConfigData(cwd, holders, log_directory) ==
  [LoadConfig(log_directory) EXCEPT !.has_config_file_path = TRUE,
                                    !.config_file_path = GetConfigPath(cwd, holders)]

\* config.DEFAULT_CONFIG as the module defines it
DefaultConfig ==
  [screenshot_interval_minutes |-> 5,
   keyword_filters |->
     [include_processes |-> << "chrome", "firefox", "slack", "msedge", "brave" >>,
      exclude_words |-> << "password", "secret", "pswd" >>],
   log_directory |-> "ParentalMonitorData",
   encryption_key_file |-> "encryption.key"]

\* What yaml.safe_load returns for a config.yaml: a dictionary with some of
\* the top-level keys, and under keyword_filters some of its keys.
TopKeys == {"screenshot_interval_minutes", "keyword_filters", "log_directory"}
FilterKeys == {"include_processes", "exclude_words"}
UserConfigs ==
  { [keys |-> c[1], screenshot_interval_minutes |-> 10, log_directory |-> "MyCustomLogs",
     keyword_filters |-> [keys |-> c[2], include_processes |-> << "only_this_app" >>,
                          exclude_words |-> << "confidential" >>]] :
      c \in {k \in (SUBSET TopKeys) \X (SUBSET FilterKeys) :
               k[2] = {} \/ "keyword_filters" \in k[1]} }
NoConfigFile == [keys |-> {}, exists |-> FALSE]
NotLoaded == [called |-> FALSE, found |-> NoConfigFile, config |-> DefaultConfig]

\* dict.update: the keys of the other dictionary are set, the rest is kept
DictUpdate(d, other) ==
  [k \in DOMAIN d |-> IF k \in other.keys THEN other[k] ELSE d[k]]

\* load_config, from the shallow copy of DEFAULT_CONFIG to the end of the
\* merge loop. config['keyword_filters'] is the dictionary DEFAULT_CONFIG
\* holds under that key: updating it in place changes both.
MergeUserConfig(defaults, user_config) ==
  LET filters == IF "keyword_filters" \in user_config.keys
                 THEN DictUpdate(defaults.keyword_filters, user_config.keyword_filters)
                 ELSE defaults.keyword_filters
      top == [k \in DOMAIN defaults |->
                IF k \in user_config.keys /\ k # "keyword_filters"
                THEN user_config[k] ELSE defaults[k]]
  IN [config |-> [top EXCEPT !.keyword_filters = filters],
      DEFAULT_CONFIG |-> [defaults EXCEPT !.keyword_filters = filters]]

\* ensure_daily_log_dir: the directory that holds the daily partitions
BaseLogDir(cfg, cwd) ==
  IF cfg.log_directory.abs THEN cfg.log_directory.path
  ELSE IF cfg.has_config_file_path
  THEN Dirname(cfg.config_file_path) \o cfg.log_directory.path
  ELSE AbsPath(cwd, cfg.log_directory.path)

\* logger.get_error_log_path(config)
GetErrorLogPath(cfg, cwd) ==
  LET log_dir_base ==
        IF cfg.log_directory.abs THEN cfg.log_directory.path
        ELSE IF cfg.has_config_file_path
        THEN Dirname(Dirname(cfg.config_file_path)) \o cfg.log_directory.path
        ELSE AbsPath(cwd, << ".." >> \o cfg.log_directory.path)
  IN Append(Dirname(log_dir_base), ERROR_LOG_FILE)

\* logger.log_error(message, config): the line is appended to the file
\* that get_error_log_path names
LogError(files, cfg, cwd, line) ==
  LET path == GetErrorLogPath(cfg, cwd)
  IN [q \in DOMAIN files \cup {path} |->
        IF q = path
        THEN Append(IF q \in DOMAIN files THEN files[q] ELSE <<>>, line)
        ELSE files[q]]

\* What is on the screen when a screenshot is taken
Screens == {"png1", "png2"}

\* LinuxScreenshotCapture.__init__: the backend it can select
Backends == {"pyscreenshot", "gnome-screenshot", "scrot"}

VARIABLES
  \* LinuxKeyCapture fields
  buffer,               \* self.buffer
  last_activity_time,   \* self.last_activity_time
  running,              \* self.running
  include_processes,    \* self.include_processes
  exclude_words,        \* self.exclude_words
  \* the clock and the threads of a capture session
  now,                  \* time.time(), in watchdog periods
  wd_pc,                \* _buffer_timeout_checker: "sleep","read","write","done"
  wd_wake,              \* when the watchdog's sleep ends
  wd_content,           \* content_to_process of the watchdog's process_buffer
  st_pc,                \* stop(): "idle","join","joined","write","done"
  st_content,           \* content_to_process of stop()'s process_buffer
  \* history of the session
  keys,                 \* key events delivered to on_press
  last_char_time,       \* when the last character was appended
  submits,              \* the submit_word calls of the last process_buffer call
  emitted,              \* the words that passed submit_word's length check
  cand_chars,           \* the characters of all candidates handed to submit_word
  active_window,        \* what get_active_window_info_x11 returns now
  fs,                   \* how the filesystem answers a log_keyword call now
  logged,               \* log_data handed to log_callback
  stop_buffer,          \* self.buffer when stop() began
  stop_logged,          \* number of callback calls when stop() began
  \* logger module and the disk
  cipher_suite,         \* logger.cipher_suite: the key it encrypts with
  today,                \* datetime.date.today()
  sec,                  \* seconds since midnight of datetime.datetime.now()
  dirs,                 \* dates whose partition tree exists
  kwlog,                \* <base>/<date>/keywords.log.enc, as a sequence of blocks
  shots,                \* <base>/<date>/Screenshots/*.png.enc: path -> content
  tmp_png,              \* /tmp/parental_monitor_screenshot.png
  error_log,            \* error.log, one element per line
  ok_calls,             \* per file, the entries of the log_keyword calls that wrote it
  lk_pc,                \* log_keyword in flight: "idle","write"
  lk_dir,               \* daily_dir of the call in flight
  lk_entry,             \* keyword_entry of the call in flight
  active_backend,       \* LinuxScreenshotCapture.active_backend
  tk_pc,                \* scheduler tick in flight: "idle","cli","save","write"
  tk_image,             \* image_bytes of the tick in flight
  tk_dir,               \* screenshots_dir of the save in flight
  n_calls,              \* handle_keyword_log calls and scheduler ticks begun
  \* concurrent log_keyword calls
  wr                    \* per thread, the log_keyword call it has in flight

capture_vars ==
  << buffer, last_activity_time, running, include_processes, exclude_words,
     now, wd_pc, wd_wake, wd_content, st_pc, st_content, keys, last_char_time,
     submits, emitted, cand_chars, logged, stop_buffer, stop_logged >>

env_vars == << active_window, fs >>

disk_vars == << dirs, kwlog, error_log, ok_calls >>

store_vars ==
  << cipher_suite, today, sec, shots, tmp_png, lk_pc, lk_dir, lk_entry,
     active_backend, tk_pc, tk_image, tk_dir, n_calls >>

writer_vars == << wr >>

VARIABLES
  main,                 \* main(): where the agent process is, its arguments
  config,               \* the loaded configuration
  key_files,            \* the key file in each directory a key can be put in
  umask,                \* the file mode creation mask of the process
  utils_CIPHER_SUITE    \* utils._CIPHER_SUITE

startup_vars == << main, config, key_files, umask, utils_CIPHER_SUITE >>

\* what the capture session and the sequential store leave alone
VARIABLES
  modes,                \* the permission bits of what the store has created
  op                    \* per store operation, the call in flight and its return

mode_vars == << modes, op >>

VARIABLES
  sch                   \* the scheduler thread, its stop event and its clock

sched_vars == << sch >>

VARIABLES
  stp                   \* stop_monitoring_services, the threads it stops, error.log by path

stop_vars == << stp >>

VARIABLES
  DEFAULT_CONFIG,       \* config.DEFAULT_CONFIG, the module's dictionary
  config_file,          \* config.yaml at the path get_config_path returns
  loaded                \* the last load_config call: the file it found, what it returned

loader_vars == << DEFAULT_CONFIG, config_file, loaded >>

VARIABLES
  dec                   \* the last decrypt call: its key, its input, what it gave

decrypt_vars == << dec >>

VARIABLES
  mainrun               \* main() from its try statement on: where it is, what it started

try_vars == << mainrun >>

VARIABLES
  cap                   \* keystroke_capture: _capture_instance, the sessions made so far

session_vars == << cap >>

VARIABLES
  typed                 \* history: the window each buffered character was typed
                        \* into, and per logged entry the windows of its characters

window_vars == << typed >>

VARIABLES
  kr                    \* per process, its load_or_generate_key call and the key it uses

keyrace_vars == << kr >>

extra_vars ==
  << loader_vars, decrypt_vars, try_vars, session_vars, window_vars, keyrace_vars >>

aux_vars == << writer_vars, startup_vars, mode_vars, sched_vars, stop_vars, extra_vars >>

vars == << capture_vars, env_vars, disk_vars, store_vars, aux_vars >>

\* --------------------------------------------------------------- filter
\* Mutations of submit_word: the exclude test by equality, the include test
\* on the name as reported, and no minimum length.
SubmitOutcome_ExcludeExact(word_candidate, win, incl, excl) ==
  LET w == Lower(Strip(word_candidate))
      app_name_lower == Lower(win.app)
  IN IF w = <<>> \/ Len(w) < MinWordLen THEN "short"
     ELSE IF \E excluded \in excl : excluded = w THEN "excluded"
     ELSE IF incl # {} /\ ~ \E proc_name \in incl : Contains(proc_name, app_name_lower)
          THEN "not_included"
     ELSE "logged"

SubmitOutcome_NoLower(word_candidate, win, incl, excl) ==
  LET w == Lower(Strip(word_candidate))
  IN IF w = <<>> \/ Len(w) < MinWordLen THEN "short"
     ELSE IF \E excluded \in excl : Contains(excluded, w) THEN "excluded"
     ELSE IF incl # {} /\ ~ \E proc_name \in incl : Contains(proc_name, win.app)
          THEN "not_included"
     ELSE "logged"

SubmitOutcome_NoMinLen(word_candidate, win, incl, excl) ==
  LET w == Lower(Strip(word_candidate))
      app_name_lower == Lower(win.app)
  IN IF w = <<>> THEN "short"
     ELSE IF \E excluded \in excl : Contains(excluded, w) THEN "excluded"
     ELSE IF incl # {} /\ ~ \E proc_name \in incl : Contains(proc_name, app_name_lower)
          THEN "not_included"
     ELSE "logged"

\* submit_word up to the callback: the outcome for one candidate when the
\* active window is `win`.
SubmitOutcome(word_candidate, win, incl, excl) ==
  LET w == Lower(Strip(word_candidate))
      app_name_lower == Lower(win.app)
  IN IF w = <<>> \/ Len(w) < MinWordLen THEN "short"
     ELSE IF \E excluded \in excl : Contains(excluded, w) THEN "excluded"
     ELSE IF incl # {} /\ ~ \E proc_name \in incl : Contains(proc_name, app_name_lower)
          THEN "not_included"
     ELSE "logged"

\* log_data of one logged candidate
LogData(word_candidate, win) ==
  [app |-> win.app, word |-> Lower(Strip(word_candidate)), title |-> win.title]

\* ------------------------------------------------------------ segmenter
\* The loop of process_buffer over the parts of re.split: the candidates
\* handed to submit_word, in order, and the word left over at the end.
RECURSIVE SplitLoop(_, _, _)
SplitLoop(parts, current_word, subs) ==
  IF parts = <<>> THEN [subs |-> subs, current_word |-> current_word]
  ELSE LET part == Head(parts)
       IN IF part = <<>> THEN SplitLoop(Tail(parts), current_word, subs)
          ELSE IF \A i \in 1..Len(part) : IsSpace(part[i])
               THEN IF current_word # <<>>
                    THEN SplitLoop(Tail(parts), <<>>, Append(subs, current_word))
                    ELSE SplitLoop(Tail(parts), current_word, subs)
               ELSE SplitLoop(Tail(parts), current_word \o part, subs)

\* A mutation of process_buffer: a forced flush leaves the word in the buffer.
ProcessBuffer_KeepsWord(content_to_process, force_flush) ==
  LET r == SplitLoop(ReSplit(content_to_process), <<>>, <<>>)
  IN IF r.current_word # <<>>
     THEN IF force_flush
          THEN [subs |-> Append(r.subs, r.current_word), buffer |-> r.current_word]
          ELSE [subs |-> r.subs, buffer |-> r.current_word]
     ELSE [subs |-> r.subs, buffer |-> <<>>]

\* process_buffer(force_flush) on content_to_process: the submit_word calls
\* it makes and the value it assigns to self.buffer.
ProcessBuffer(content_to_process, force_flush) ==
  LET r == SplitLoop(ReSplit(content_to_process), <<>>, <<>>)
  IN IF r.current_word # <<>>
     THEN IF force_flush
          THEN [subs |-> Append(r.subs, r.current_word), buffer |-> <<>>]
          ELSE [subs |-> r.subs, buffer |-> r.current_word]
     ELSE [subs |-> r.subs, buffer |-> <<>>]

\* ---------------------------------------------------------------- store
\* Fernet: a token is opaque ciphertext under one key; decrypting with
\* another key, or something that is no token, fails.
Encrypt(key, data) == [kind |-> "fernet", key |-> key, data |-> data]
InvalidToken == [kind |-> "InvalidToken"]
IsToken(x) == x.kind = "fernet"
Decrypt(key, token) ==
  IF token.kind = "fernet" /\ token.key = key THEN token.data ELSE InvalidToken
NL == [kind |-> "newline"]
\* A token cut short, and a token with bytes changed: neither passes the
\* HMAC check of Fernet.decrypt under any key.
Truncated(token) == [token EXCEPT !.kind = "truncated"]
Corrupted(token) == [token EXCEPT !.kind = "corrupted"]

\* handle_keyword_log: the entry string built from log_data
TitleShown(title) ==
  title.text # "" /\ title.text # "Unknown Title" /\ title.text # "Error"
Truncate(title, n) == Title(title.text, IF title.len > n THEN n ELSE title.len)
LogEntry(keyword_data) ==
  [app |-> keyword_data.app, word |-> keyword_data.word,
   title |-> IF TitleShown(keyword_data.title)
             THEN Truncate(keyword_data.title, 100) ELSE NoTitle]

\* datetime.datetime.now(): the date and the second of the day
Clock(day, second) == [day |-> day, sec |-> second]

\* log_keyword: the line that is encrypted
FullLogEntry(timestamp, entry) == [timestamp |-> timestamp, entry |-> entry, nl |-> TRUE]

\* log_error: one line of error.log
ErrLine(message, is_critical) == [critical |-> is_critical, message |-> message]

\* A path below the log directory: the partition, the name in it, and
\* for a screenshot file the timestamp in its name
NoStamp == [none |-> TRUE]
LogPath(day, name, stamp) == [dir |-> day, name |-> name, stamp |-> stamp]

\* str(e) of the OSError that makedirs, chmod, open or write raise for
\* `path`: the error text and the file name
OSErrorText(path) == [strerror |-> "OSError", filename |-> path]

\* log_error(f"...{path}: {e}"): a line with the values its message
\* interpolates
ErrLineWith(message, is_critical, values) ==
  [critical |-> is_critical, message |-> message, values |-> values]

\* The threads that stop_monitoring_services stops
Spawned == {"listener", "watchdog", "scheduler"}

\* The agent monitoring, started in the directory cwd: main() has logged
\* its start-up events, the three threads wait for their next event.
Monitoring(cwd, holders, log_directory) ==
  LET config_data == ConfigData(cwd, holders, log_directory)
      f0 == [q \in {} |-> <<>>]
      f1 == LogError(f0, config_data, cwd, ErrLine("Parental Monitor application starting.", FALSE))
      f2 == LogError(f1, config_data, cwd, ErrLine("EULA accepted.", FALSE))
      f3 == LogError(f2, config_data, cwd, ErrLine("Monitoring services started.", FALSE))
  IN [pc |-> "monitoring", thread |-> [th \in Spawned |-> "waiting"],
      running |-> TRUE, pynput_stopped |-> FALSE, stop_event |-> FALSE,
      pending |-> FALSE, timed_out |-> {}, reported |-> {}, kw |-> 0, shot |-> 0,
      cwd |-> cwd, holders |-> holders, log_directory |-> log_directory,
      error_files |-> f3]

NoStop == Monitoring(AppDir, {AppDir}, DefaultLogDirectory)

\* A mutation of the append: the file opened 'wb', not 'ab'.
AppendRecord_Overwrite(file, token) == <<token, NL>>

\* A mutation of the append: the separator is not written.
AppendRecord_NoSeparator(file, token) == Append(file, token)

\* The append of log_keyword: the ciphertext block, then the separator.
AppendRecord(file, token) == file \o <<token, NL>>

\* ensure_daily_log_dir on the disk `d` when the date is `day`: the partition
\* tree exists afterwards, or the failure is logged and raised.
EnsureDailyLogDir(d, day, outcome) ==
  IF outcome = "mkdir_fails"
  THEN LET screenshots_dir == LogPath(day, "Screenshots", NoStamp)
       IN [d EXCEPT !.error_log =
             Append(@, ErrLineWith("Failed to create/set permissions for directory", TRUE,
                                   << screenshots_dir, OSErrorText(screenshots_dir) >>))]
  ELSE [d EXCEPT !.dirs = @ \cup {day}]

\* log_keyword from the timestamp on: the entry is stamped, encrypted and
\* appended to the keyword log of `daily_dir`, or the failure is logged.
\* A mutation of log_keyword: the message of a failed write names the
\* entry that could not be written.
LogKeywordWrite_LogsEntry(d, daily_dir, timestamp, entry, key, outcome) ==
  IF outcome = "write_fails"
  THEN [d EXCEPT !.error_log =
          Append(@, ErrLineWith("Failed to write to keyword log", TRUE, << entry >>))]
  ELSE [d EXCEPT !.kwlog[daily_dir] =
                    AppendRecord(@, Encrypt(key, FullLogEntry(timestamp, entry))),
                 !.ok_calls[daily_dir] = Append(@, entry)]

LogKeywordWrite(d, daily_dir, timestamp, entry, key, outcome) ==
  IF outcome = "write_fails"
  THEN LET log_file_path == LogPath(daily_dir, "keywords.log.enc", NoStamp)
       IN [d EXCEPT !.error_log =
             Append(@, ErrLineWith("Failed to write to keyword log", TRUE,
                                   << log_file_path, OSErrorText(log_file_path) >>))]
  ELSE [d EXCEPT !.kwlog[daily_dir] =
                    AppendRecord(@, Encrypt(key, FullLogEntry(timestamp, entry))),
                 !.ok_calls[daily_dir] = Append(@, entry)]

\* One whole handle_keyword_log(keyword_data) call on the disk `d`
\* (dirs, kwlog, error_log, ok_calls), the clock reading `clock` throughout.
HandleKeywordLog(d, keyword_data, key, clock, outcome) ==
  LET entry == LogEntry(keyword_data)
      ensured == EnsureDailyLogDir(d, clock.day, outcome)
  IN IF key = NoKey
     THEN [d EXCEPT !.error_log = Append(@,
             ErrLine("Attempted to log keyword before encryption was initialized.", FALSE))]
     ELSE IF outcome = "mkdir_fails"
     THEN [ensured EXCEPT !.error_log =
             Append(@, ErrLineWith("Exception in handle_keyword_log", FALSE,
                         << OSErrorText(LogPath(clock.day, "Screenshots", NoStamp)) >>))]
     ELSE LogKeywordWrite(ensured, clock.day, clock, entry, key, outcome)

\* take_screenshot_and_log with an image captured: the lines that it and
\* save_screenshot add to error.log
SaveScreenshotErrors(image_bytes, key, clock, outcome) ==
  LET screenshots_dir == LogPath(clock.day, "Screenshots", NoStamp)
      file_path == LogPath(clock.day, "png.enc", clock)
  IN IF key = NoKey
     THEN << ErrLine("Attempted to save screenshot before encryption was initialized.", FALSE) >>
     ELSE IF outcome = "mkdir_fails"
     THEN << ErrLineWith("Failed to create/set permissions for directory", TRUE,
                         << screenshots_dir, OSErrorText(screenshots_dir) >>),
             ErrLineWith("take_screenshot_and_log: Unhandled exception", TRUE,
                         << OSErrorText(screenshots_dir) >>) >>
     ELSE IF outcome = "write_fails"
     THEN << ErrLineWith("Failed to save screenshot", TRUE,
                         << file_path, OSErrorText(file_path) >>) >>
     ELSE <<>>

RECURSIVE HandleAll(_, _, _, _, _)
HandleAll(d, datas, outs, key, clock) ==
  IF datas = <<>> THEN d
  ELSE HandleAll(HandleKeywordLog(d, Head(datas), key, clock, Head(outs)),
                 Tail(datas), Tail(outs), key, clock)

Disk == [dirs |-> dirs, kwlog |-> kwlog, error_log |-> error_log, ok_calls |-> ok_calls]

SetDisk(d) ==
  /\ dirs' = d.dirs
  /\ kwlog' = d.kwlog
  /\ error_log' = d.error_log
  /\ ok_calls' = d.ok_calls

\* ------------------------------------------------- submit_word, in a run
SelectIdx(s, idx) ==
  LET F[i \in 0..Len(s)] ==
        IF i = 0 THEN <<>>
        ELSE IF i \in idx THEN Append(F[i - 1], s[i]) ELSE F[i - 1]
  IN F[Len(s)]

RECURSIVE Flatten(_)
Flatten(ss) == IF ss = <<>> THEN <<>> ELSE Head(ss) \o Flatten(Tail(ss))

\* The submit_word calls `subs` of one process_buffer call, made while the
\* active window is `win` and the filesystem answers `out`.
Submit(subs, win, out) ==
  LET n == Len(subs)
      res == [i \in 1..n |-> SubmitOutcome(subs[i], win, include_processes, exclude_words)]
      passed == {i \in 1..n : res[i] # "short"}
      called == {i \in 1..n : res[i] = "logged"}
      datasUpTo(k) == SelectIdx([i \in 1..n |-> LogData(subs[i], win)],
                                {i \in called : i <= k})
      diskUpTo(k) ==
        HandleAll(Disk, datasUpTo(k), [i \in 1..Len(datasUpTo(k)) |-> out],
                  cipher_suite, Clock(today, sec))
  IN /\ submits' =
           [i \in 1..n |->
              [cand |-> subs[i], win |-> win,
               passed |-> i \in passed, called |-> i \in called,
               errors |-> Len(diskUpTo(i).error_log) - Len(diskUpTo(i - 1).error_log)]]
     /\ cand_chars' = cand_chars \o Flatten(subs)
     /\ emitted' = emitted \o SelectIdx([i \in 1..n |-> Lower(Strip(subs[i]))], passed)
     /\ logged' = logged \o datasUpTo(n)
     /\ SetDisk(diskUpTo(n))

\* process_buffer(force_flush) run on `content`, from the read of self.buffer
\* to the assignment of self.buffer
FlushEffect(content, force_flush) ==
  LET r == ProcessBuffer(content, force_flush)
  IN /\ buffer' = r.buffer
     /\ Submit(r.subs, active_window, fs)

\* on_press(key) of the listener thread, with the process_buffer call it makes
OnPressEffect(key) ==
  /\ last_activity_time' = now
  /\ keys' = Append(keys, key)
  /\ IF key \in Chars
     THEN /\ buffer' = Append(buffer, key)
          /\ last_char_time' = now
          /\ UNCHANGED << submits, emitted, cand_chars, logged, disk_vars >>
     ELSE IF key = SPACE
     THEN /\ FlushEffect(Append(buffer, " "), FALSE)
          /\ UNCHANGED last_char_time
     ELSE IF key = ENTER \/ key = TAB
     THEN /\ FlushEffect(buffer, TRUE)
          /\ UNCHANGED last_char_time
     ELSE UNCHANGED << buffer, last_char_time, submits, emitted, cand_chars, logged, disk_vars >>

\* ---------------------------------------------------------------- Init
\* The state after initialize_logger and LinuxKeyCapture.start().
InitCaptureFields ==
  /\ buffer = <<>>
  /\ last_activity_time = 0
  /\ running = TRUE
  /\ now = 0
  /\ wd_pc = "sleep"
  /\ wd_wake = sleep_units
  /\ wd_content = <<>>
  /\ st_pc = "idle"
  /\ st_content = <<>>
  /\ keys = <<>>
  /\ last_char_time = 0
  /\ submits = <<>>
  /\ emitted = <<>>
  /\ cand_chars = <<>>
  /\ logged = <<>>
  /\ stop_buffer = <<>>
  /\ stop_logged = 0

InitDiskFields ==
  /\ today = 0
  /\ sec = 0
  /\ dirs = {}
  /\ kwlog = [d \in Days |-> <<>>]
  /\ shots = NoShots
  /\ tmp_png = NoFile
  /\ error_log = <<>>
  /\ ok_calls = [d \in Days |-> <<>>]
  /\ lk_pc = "idle"
  /\ lk_dir = 0
  /\ lk_entry = NoTitle
  /\ tk_pc = "idle"
  /\ tk_image = NoFile
  /\ tk_dir = 0
  /\ n_calls = 0
  /\ wr = [t \in Threads |-> NoCall]
  /\ modes = [base |-> "none", daily |-> [d \in Days |-> "none"],
              screenshots |-> [d \in Days |-> "none"],
              kwlog |-> [d \in Days |-> "none"], shots |-> NoModes]
  /\ op = [c \in StoreOps |-> NoOp]
  /\ DEFAULT_CONFIG = DefaultConfig
  /\ config_file = NoConfigFile
  /\ loaded = NotLoaded
  /\ dec = NoDecrypt
  /\ mainrun = EnteringTry
  /\ cap = NoCapture
  /\ typed = NothingTyped
  /\ kr = NotInitialized

\* The agent installed with the default configuration, initialized and
\* monitoring: the key is in the configuration directory.
InitInstalledFields ==
  /\ cipher_suite = InstallKey
  /\ InitDiskFields
  /\ main = [pc |-> "monitoring", args |-> "monitor", runs |-> 1,
             keystroke_started |-> TRUE, screenshot_started |-> TRUE,
             listener_alive |-> TRUE, scheduler_alive |-> TRUE]
  /\ config = [encryption_key_file |-> "config_dir", eula_accepted |-> "True"]
  /\ key_files = [d \in KeyDirs |->
                    IF d = "config_dir"
                    THEN [content |-> InstallKey,
                          mode |-> IF umask = "077" THEN "0600" ELSE "0644"]
                    ELSE NoKeyFile]
  /\ utils_CIPHER_SUITE = NoKey

InitStoreFields ==
  /\ umask = "077"
  /\ InitInstalledFields
  /\ sch = NoScheduler
  /\ stp = NoStop

FilterConfigs ==
  { [incl |-> {Lower(p) : p \in c.incl}, excl |-> {Lower(w) : w \in c.excl}] :
      c \in [incl : IncludeConfigs, excl : ExcludeConfigs] }

\* A filter run: any filter configuration, any filesystem answer.
InitFilter ==
  /\ InitCaptureFields
  /\ InitStoreFields
  /\ \E c \in FilterConfigs :
       include_processes = c.incl /\ exclude_words = c.excl
  /\ active_window \in ActiveWindows
  /\ fs \in StoreOutcomes
  /\ active_backend = "pyscreenshot"

\* A capture session: no keyword filter, one window in front, a filesystem
\* that works or one whose appends fail.
Init ==
  /\ InitCaptureFields
  /\ InitStoreFields
  /\ include_processes = {}
  /\ exclude_words = {}
  /\ active_window = [app |-> <<"C", "x">>, title |-> Title("LongDoc", 120)]
  /\ fs \in {"ok", "write_fails"}
  /\ active_backend = "pyscreenshot"

\* ------------------------------------------- listener-only specification
\* The listener thread alone, no keyword filter: key events handled one
\* after another.
listener_frame ==
  << running, include_processes, exclude_words, now, wd_pc, wd_wake,
     wd_content, st_pc, st_content, stop_buffer, stop_logged >>

SegOnPress ==
  /\ Len(keys) < MaxKeysSeq
  /\ \E key \in Keys : OnPressEffect(key)
  /\ UNCHANGED << listener_frame, env_vars, store_vars, aux_vars >>

NextSegmenter == SegOnPress

InitSegmenter == Init /\ fs = "ok"

SpecSegmenter == InitSegmenter /\ [][NextSegmenter]_vars

\* ------------------------------------------------- filter specification
\* The listener thread alone under every filter configuration, the user
\* switching windows between key events.
FltOnPress ==
  /\ Len(keys) < MaxKeysFilter
  /\ \E key \in Keys : OnPressEffect(key)
  /\ UNCHANGED << listener_frame, env_vars, store_vars, aux_vars >>

\* The user brings another window to the front.
FltSwitchWindow ==
  /\ \E w \in ActiveWindows \ {active_window} : active_window' = w
  /\ UNCHANGED << capture_vars, fs, disk_vars, store_vars, aux_vars >>

NextFilter == FltOnPress \/ FltSwitchWindow

SpecFilter == InitFilter /\ [][NextFilter]_vars

\* ---------------------------------------------- the capture session
\* Listener, watchdog and the stopping thread, with the clock.
config_vars == << include_processes, exclude_words >>

\* The listener delivers a key event (pynput calls on_press) while it runs.
CapOnPress ==
  /\ running
  /\ Len(keys) < MaxKeys
  /\ \E key \in Keys : OnPressEffect(key)
  /\ UNCHANGED << running, now, wd_pc, wd_wake, wd_content, st_pc, st_content,
                  stop_buffer, stop_logged, config_vars >>
  /\ UNCHANGED << env_vars, store_vars, aux_vars >>

\* Time passes. A sleeping watchdog wakes when its sleep is over, and its
\* flush takes less than one clock unit.
SessionOver == st_pc = "done" /\ wd_pc = "done"

Tick ==
  /\ now < MaxTime
  /\ ~ SessionOver
  /\ wd_pc \notin {"read", "write"}
  /\ ~ (wd_pc = "sleep" /\ now >= wd_wake)
  /\ now' = now + 1
  /\ UNCHANGED << buffer, last_activity_time, running, wd_pc, wd_wake, wd_content,
                  st_pc, st_content, keys, last_char_time, submits, emitted, cand_chars, logged,
                  stop_buffer, stop_logged, config_vars >>
  /\ UNCHANGED << env_vars, disk_vars, store_vars, aux_vars >>

\* The `while self.running` test of _buffer_timeout_checker
WdLoop(run) == IF run THEN "sleep" ELSE "done"

\* _buffer_timeout_checker wakes from time.sleep and tests the buffer.
WdWake ==
  /\ wd_pc = "sleep"
  /\ now >= wd_wake
  /\ IF buffer # <<>> /\ now - last_activity_time > buffer_timeout_units
     THEN /\ wd_pc' = "read"
          /\ UNCHANGED wd_wake
     ELSE /\ wd_pc' = WdLoop(running)
          /\ wd_wake' = now + sleep_units
  /\ UNCHANGED << buffer, last_activity_time, running, now, wd_content,
                  st_pc, st_content, keys, last_char_time, submits, emitted, cand_chars, logged,
                  stop_buffer, stop_logged, config_vars >>
  /\ UNCHANGED << env_vars, disk_vars, store_vars, aux_vars >>

\* process_buffer of the watchdog: content_to_process = self.buffer
WdRead ==
  /\ wd_pc = "read"
  /\ wd_content' = buffer
  /\ wd_pc' = "write"
  /\ UNCHANGED << buffer, last_activity_time, running, now, wd_wake,
                  st_pc, st_content, keys, last_char_time, submits, emitted, cand_chars, logged,
                  stop_buffer, stop_logged, config_vars >>
  /\ UNCHANGED << env_vars, disk_vars, store_vars, aux_vars >>

\* process_buffer of the watchdog: the submit_word calls, then the
\* assignment of self.buffer; back to the loop test.
WdWrite ==
  /\ wd_pc = "write"
  /\ FlushEffect(wd_content, TRUE)
  /\ wd_pc' = WdLoop(running)
  /\ wd_wake' = now + sleep_units
  /\ UNCHANGED << last_activity_time, running, now, wd_content,
                  st_pc, st_content, keys, last_char_time,
                  stop_buffer, stop_logged, config_vars >>
  /\ UNCHANGED << env_vars, store_vars, aux_vars >>

\* stop(): running = False, the listener is stopped and joined.
StopBegin ==
  /\ st_pc = "idle"
  /\ running
  /\ running' = FALSE
  /\ st_pc' = "join"
  /\ stop_buffer' = buffer
  /\ stop_logged' = Len(logged)
  /\ UNCHANGED << buffer, last_activity_time, now, wd_pc, wd_wake, wd_content,
                  st_content, keys, last_char_time, submits, emitted, cand_chars, logged, config_vars >>
  /\ UNCHANGED << env_vars, disk_vars, store_vars, aux_vars >>

\* stop(): timeout_thread.join(timeout=1) returns: the watchdog has ended,
\* or the timeout expired while it sleeps (its sleep is 2.5 s).
StopJoin ==
  /\ st_pc = "join"
  /\ wd_pc \in {"sleep", "done"}
  /\ st_pc' = "joined"
  /\ UNCHANGED << buffer, last_activity_time, running, now, wd_pc, wd_wake,
                  wd_content, st_content, keys, last_char_time, submits, emitted,
                  cand_chars, logged, stop_buffer, stop_logged, config_vars >>
  /\ UNCHANGED << env_vars, disk_vars, store_vars, aux_vars >>

\* stop(): `if self.buffer:` and the read of process_buffer
StopRead ==
  /\ st_pc = "joined"
  /\ IF buffer # <<>>
     THEN /\ st_content' = buffer
          /\ st_pc' = "write"
     ELSE /\ st_pc' = "done"
          /\ UNCHANGED st_content
  /\ UNCHANGED << buffer, last_activity_time, running, now, wd_pc, wd_wake,
                  wd_content, keys, last_char_time, submits, emitted, cand_chars, logged,
                  stop_buffer, stop_logged, config_vars >>
  /\ UNCHANGED << env_vars, disk_vars, store_vars, aux_vars >>

\* stop(): the rest of process_buffer(force_flush=True)
StopWrite ==
  /\ st_pc = "write"
  /\ FlushEffect(st_content, TRUE)
  /\ st_pc' = "done"
  /\ UNCHANGED << last_activity_time, running, now, wd_pc, wd_wake, wd_content,
                  st_content, keys, last_char_time,
                  stop_buffer, stop_logged, config_vars >>
  /\ UNCHANGED << env_vars, store_vars, aux_vars >>

Next ==
  \/ CapOnPress
  \/ Tick
  \/ WdWake
  \/ WdRead
  \/ WdWrite
  \/ StopBegin
  \/ StopJoin
  \/ StopRead
  \/ StopWrite

Spec == Init /\ [][Next]_vars

\* ------------------------------------------------------ the store
\* The logger module under a clock that crosses midnight: handle_keyword_log
\* calls made one after another, and the scheduler's ticks beside them.
KeywordDatas ==
  { [app |-> <<"C", "x">>, word |-> <<"a", "b">>, title |-> Title("LongDoc", 120)],
    [app |-> <<"v">>, word |-> <<"b", "b">>, title |-> Title("Unknown Title", 13)] }

store_frame == << capture_vars, active_window, aux_vars >>

\* save_screenshot: the file written, named by the timestamp, opened 'wb'
SaveScreenshotWrite(files, screenshots_dir, timestamp, image_bytes, key) ==
  LET file_path == [dir |-> screenshots_dir, name |-> timestamp]
  IN [q \in DOMAIN files \cup {file_path} |->
        IF q = file_path THEN Encrypt(key, image_bytes) ELSE files[q]]

\* handle_keyword_log -> log_keyword up to the return of ensure_daily_log_dir,
\* which reads the date; a call that cannot go on ends here.
LkBegin ==
  /\ lk_pc = "idle"
  /\ n_calls < MaxCalls
  /\ n_calls' = n_calls + 1
  /\ \E keyword_data \in KeywordDatas :
       IF cipher_suite = NoKey \/ fs = "mkdir_fails"
       THEN /\ SetDisk(HandleKeywordLog(Disk, keyword_data, cipher_suite,
                                        Clock(today, sec), fs))
            /\ UNCHANGED << lk_pc, lk_dir, lk_entry >>
       ELSE /\ SetDisk(EnsureDailyLogDir(Disk, today, fs))
            /\ lk_pc' = "write"
            /\ lk_dir' = today
            /\ lk_entry' = LogEntry(keyword_data)
  /\ UNCHANGED << cipher_suite, today, sec, shots, tmp_png, active_backend,
                  tk_pc, tk_image, tk_dir, fs >>
  /\ UNCHANGED store_frame

\* log_keyword from datetime.now() to the end of the append
LkWrite ==
  /\ lk_pc = "write"
  /\ SetDisk(LogKeywordWrite(Disk, lk_dir, Clock(today, sec), lk_entry,
                             cipher_suite, fs))
  /\ lk_pc' = "idle"
  /\ UNCHANGED << cipher_suite, today, sec, shots, tmp_png, active_backend,
                  tk_pc, tk_image, tk_dir, fs, lk_dir, lk_entry, n_calls >>
  /\ UNCHANGED store_frame

\* The local date changes.
Midnight ==
  /\ today < MaxDays
  /\ today' = today + 1
  /\ sec' = 0
  /\ UNCHANGED << cipher_suite, shots, tmp_png, active_backend, tk_pc, tk_image,
                  tk_dir, fs, lk_pc, lk_dir, lk_entry, n_calls, disk_vars >>
  /\ UNCHANGED store_frame

\* A second passes.
ClockSecond ==
  /\ sec < MaxSec
  /\ sec' = sec + 1
  /\ UNCHANGED << cipher_suite, today, shots, tmp_png, active_backend, tk_pc,
                  tk_image, tk_dir, fs, lk_pc, lk_dir, lk_entry, n_calls, disk_vars >>
  /\ UNCHANGED store_frame

\* The filesystem starts to answer differently (disk full, permissions).
FsChange ==
  /\ \E outcome \in StoreOutcomes \ {fs} : fs' = outcome
  /\ UNCHANGED << cipher_suite, today, sec, shots, tmp_png, active_backend, tk_pc,
                  tk_image, tk_dir, lk_pc, lk_dir, lk_entry, n_calls, disk_vars >>
  /\ UNCHANGED store_frame

\* take_screenshot_and_log: capturer.capture(). pyscreenshot returns the PNG
\* bytes in memory; a CLI tool writes them to /tmp/parental_monitor_screenshot.png.
TkCapture ==
  /\ tk_pc = "idle"
  /\ n_calls < MaxCalls
  /\ n_calls' = n_calls + 1
  /\ \E img \in Screens, result \in {"captured", "failed"} :
       IF result = "failed"
       THEN UNCHANGED << tk_pc, tk_image, tmp_png >>
       ELSE IF active_backend = "pyscreenshot"
       THEN /\ tk_image' = img
            /\ tk_pc' = "save"
            /\ UNCHANGED tmp_png
       ELSE /\ tmp_png' = img
            /\ tk_pc' = "cli"
            /\ UNCHANGED tk_image
  /\ UNCHANGED << cipher_suite, today, sec, shots, active_backend, tk_dir, fs,
                  lk_pc, lk_dir, lk_entry, disk_vars >>
  /\ UNCHANGED store_frame

\* _capture_with_cli after the tool returned 0: read the file, remove it.
TkCliRead ==
  /\ tk_pc = "cli"
  /\ tk_image' = tmp_png
  /\ tmp_png' = NoFile
  /\ tk_pc' = "save"
  /\ UNCHANGED << cipher_suite, today, sec, shots, active_backend, tk_dir, fs,
                  lk_pc, lk_dir, lk_entry, n_calls, disk_vars >>
  /\ UNCHANGED store_frame

\* save_screenshot up to the return of ensure_daily_log_dir
TkSave ==
  /\ tk_pc = "save"
  /\ IF cipher_suite = NoKey
     THEN /\ error_log' = error_log \o
                SaveScreenshotErrors(tk_image, cipher_suite, Clock(today, sec), fs)
          /\ tk_pc' = "idle"
          /\ UNCHANGED << dirs, tk_dir >>
     ELSE IF fs = "mkdir_fails"
     THEN /\ error_log' = error_log \o
                SaveScreenshotErrors(tk_image, cipher_suite, Clock(today, sec), fs)
          /\ tk_pc' = "idle"
          /\ UNCHANGED << dirs, tk_dir >>
     ELSE /\ dirs' = EnsureDailyLogDir(Disk, today, fs).dirs
          /\ tk_dir' = today
          /\ tk_pc' = "write"
          /\ UNCHANGED error_log
  /\ UNCHANGED << cipher_suite, today, sec, shots, tmp_png, active_backend, tk_image,
                  fs, lk_pc, lk_dir, lk_entry, n_calls, kwlog, ok_calls >>
  /\ UNCHANGED store_frame

\* save_screenshot from datetime.now() to the end of the write
TkWrite ==
  /\ tk_pc = "write"
  /\ IF fs = "write_fails"
     THEN /\ error_log' = error_log \o
                SaveScreenshotErrors(tk_image, cipher_suite, Clock(today, sec), fs)
          /\ UNCHANGED shots
     ELSE /\ shots' = SaveScreenshotWrite(shots, tk_dir, Clock(today, sec), tk_image,
                                          cipher_suite)
          /\ UNCHANGED error_log
  /\ tk_pc' = "idle"
  /\ UNCHANGED << cipher_suite, today, sec, tmp_png, active_backend, tk_image, tk_dir,
                  fs, lk_pc, lk_dir, lk_entry, n_calls, dirs, kwlog, ok_calls >>
  /\ UNCHANGED store_frame

\* ------------------------------------------------- the decryption tools
\* Iterating a file object opened 'rb': the pieces ended by a separator, and
\* what follows the last one.
RECURSIVE FileLines(_)
FileLines(file) ==
  IF file = <<>> THEN <<>>
  ELSE LET ends == {i \in DOMAIN file : file[i] = NL}
       IN IF ends = {} THEN << file >>
          ELSE LET i == CHOOSE j \in ends : \A k \in ends : j <= k
               IN << SubSeq(file, 1, i - 1) >> \o FileLines(SubSeq(file, i + 1, Len(file)))

\* fernet.decrypt accepts exactly one token made under its key
Decrypts(key, line) == Len(line) = 1 /\ IsToken(line[1]) /\ line[1].key = key

DecryptionError == [error |-> "An error occurred during decryption"]

\* decrypt_keyword_log: what it prints, line by line; the first line that
\* does not decrypt ends the loop with the error message.
RECURSIVE DecryptLines(_, _)
DecryptLines(lines, key) ==
  IF lines = <<>> THEN <<>>
  ELSE IF Head(lines) = <<>> THEN DecryptLines(Tail(lines), key)
  ELSE IF Decrypts(key, Head(lines))
       THEN << Decrypt(key, Head(lines)[1]) >> \o DecryptLines(Tail(lines), key)
       ELSE << DecryptionError >>

DecryptKeywordLog(file, key) == DecryptLines(FileLines(file), key)

\* decrypt_screenshot: the content of the output file, or the error printed
DecryptScreenshot(file, key) ==
  IF Decrypts(key, << file >>) THEN [output |-> Decrypt(key, file)] ELSE DecryptionError

\* The state after initialize_logger and start_screenshot_scheduler.
InitStore ==
  /\ InitCaptureFields
  /\ InitStoreFields
  /\ include_processes = {}
  /\ exclude_words = {}
  /\ active_window = [app |-> <<"C", "x">>, title |-> Title("LongDoc", 120)]
  /\ fs = "ok"
  /\ active_backend \in Backends

NextStore ==
  \/ LkBegin
  \/ LkWrite
  \/ Midnight
  \/ ClockSecond
  \/ FsChange
  \/ TkCapture
  \/ TkCliRead
  \/ TkSave
  \/ TkWrite

SpecStore == InitStore /\ [][NextStore]_vars

\* ------------------------------------------ concurrent log_keyword calls
\* The listener, the watchdog and the stopping thread each reach log_keyword
\* through the log callback; nothing orders their calls. Each call opens the
\* keyword log 'ab' with a buffer of its own.
writers_frame ==
  << capture_vars, env_vars, cipher_suite, today, sec, shots, tmp_png, lk_pc,
     lk_dir, lk_entry, active_backend, tk_pc, tk_image, tk_dir, startup_vars,
     mode_vars, sched_vars, stop_vars, extra_vars >>

\* What a buffered f.write(data) hands to the file at once: data that fits
\* the buffer stays in it until the file is closed; data larger than the
\* buffer (io.DEFAULT_BUFFER_SIZE) is written through.
BufferedWrite(file, buf, data, fits) ==
  IF fits THEN [file |-> file, buf |-> buf \o data]
  ELSE [file |-> file \o buf \o data, buf |-> <<>>]

\* log_keyword up to open(log_file_path, 'ab')
WrBegin(t) ==
  /\ wr[t].pc = "idle"
  /\ n_calls < MaxWriterCalls
  /\ cipher_suite # NoKey
  /\ fs = "ok"
  /\ n_calls' = n_calls + 1
  /\ \E keyword_data \in KeywordDatas, fits \in BOOLEAN :
       wr' = [wr EXCEPT ![t] =
                [pc |-> "open", dir |-> today, entry |-> LogEntry(keyword_data),
                 token |-> Encrypt(cipher_suite,
                             FullLogEntry(Clock(today, sec), LogEntry(keyword_data))),
                 fits |-> fits, buf |-> <<>>]]
  /\ SetDisk(EnsureDailyLogDir(Disk, today, fs))
  /\ UNCHANGED writers_frame

\* f.write(encrypted_entry)
WrWriteEntry(t) ==
  /\ wr[t].pc = "open"
  /\ LET w == BufferedWrite(kwlog[wr[t].dir], wr[t].buf, << wr[t].token >>, wr[t].fits)
     IN /\ kwlog' = [kwlog EXCEPT ![wr[t].dir] = w.file]
        /\ wr' = [wr EXCEPT ![t].pc = "entry", ![t].buf = w.buf]
  /\ UNCHANGED << dirs, error_log, ok_calls, n_calls >>
  /\ UNCHANGED writers_frame

\* f.write(b'\n') and the end of the with block, which flushes the buffer
WrClose(t) ==
  /\ wr[t].pc = "entry"
  /\ LET w == BufferedWrite(kwlog[wr[t].dir], wr[t].buf, << NL >>, TRUE)
     IN kwlog' = [kwlog EXCEPT ![wr[t].dir] = w.file \o w.buf]
  /\ ok_calls' = [ok_calls EXCEPT ![wr[t].dir] = Append(@, wr[t].entry)]
  /\ wr' = [wr EXCEPT ![t] = NoCall]
  /\ UNCHANGED << dirs, error_log, n_calls >>
  /\ UNCHANGED writers_frame

NextWriters == \E t \in Threads : WrBegin(t) \/ WrWriteEntry(t) \/ WrClose(t)

SpecWriters == InitStore /\ [][NextWriters]_vars

\* -------------------------------------------------------------- startup
MaxRuns == 2

store_rest ==
  << today, sec, shots, tmp_png, lk_pc, lk_dir, lk_entry, active_backend, tk_pc,
     tk_image, tk_dir, n_calls >>

\* os.path.exists of a directory: the configuration directory is made by
\* get_config_path, the log directory by the first ensure_daily_log_dir.
DirExists(dir, partitions) ==
  \/ dir \in {"config_dir", "cwd"}
  \/ dir = "log_dir" /\ partitions # {}

\* initialize_logger: the directory of the key file it settles on, the
\* configured one or, when that directory does not exist, the one next to
\* the log directory.
KeyFileDir(cfg, partitions) ==
  IF DirExists(cfg.encryption_key_file, partitions) THEN cfg.encryption_key_file
  ELSE "cwd"

\* The mode open(path, 'wb') gives a file it creates
CreateFileMode(mask) == IF mask = "077" THEN "0600" ELSE "0644"

\* Fernet.generate_key(): a key no file holds yet
GenerateKey(files) ==
  KeyNames[Cardinality({d \in KeyDirs : files[d] # NoKeyFile}) + 1]

\* load_or_generate_key, the branch that writes a new key file
WriteNewKey(files, dir, mask) ==
  [files EXCEPT ![dir] = [content |-> GenerateKey(files), mode |-> CreateFileMode(mask)]]

\* load_or_generate_key(key_path): the key files afterwards and the key
\* loaded, or the exception raised by open() or Fernet(key).
LoadOrGenerateKey(files, dir, mask, outcome) ==
  IF files[dir] # NoKeyFile
  THEN IF outcome = "read_fails"
       THEN [raised |-> TRUE, files |-> files, key |-> NoKey]
       ELSE [raised |-> FALSE, files |-> files, key |-> files[dir].content]
  ELSE IF outcome = "write_fails"
       THEN [raised |-> TRUE, files |-> files, key |-> NoKey]
       ELSE [raised |-> FALSE, files |-> WriteNewKey(files, dir, mask),
             key |-> WriteNewKey(files, dir, mask)[dir].content]

\* A mutation of main: the failure of initialize_logger is not fatal.
PcAfterInit_GoOn(raised) == "initialized"

\* main: sys.exit(1) when initialize_logger raises
PcAfterInit(raised) == IF raised THEN "exit_1" ELSE "initialized"

\* utils.decrypt with an except clause that returns what it was given
UtilsDecrypt_Swallows(cipher, token) ==
  IF cipher = NoKey THEN [error |-> "Encryption has not been initialized."]
  ELSE IF Decrypts(cipher, << token >>) THEN [output |-> Decrypt(cipher, token)]
  ELSE [output |-> token]

\* utils.decrypt: get_cipher raises without a cipher; the except clause
\* re-raises what cipher.decrypt raised
UtilsDecrypt(cipher, token) ==
  IF cipher = NoKey THEN [error |-> "Encryption has not been initialized."]
  ELSE IF Decrypts(cipher, << token >>) THEN [output |-> Decrypt(cipher, token)]
  ELSE [error |-> "InvalidToken"]

\* logger.decrypt_data: nothing catches what fernet.decrypt raises
DecryptData(encrypted_data_bytes, key_bytes) ==
  IF Decrypts(key_bytes, << encrypted_data_bytes >>)
  THEN [output |-> Decrypt(key_bytes, encrypted_data_bytes)]
  ELSE [error |-> "InvalidToken"]

\* main up to the end of the try around initialize_logger
MainInitializeLogger ==
  /\ main.pc = "start"
  /\ \E outcome \in {"ok", "read_fails", "write_fails"} :
       LET r == LoadOrGenerateKey(key_files, KeyFileDir(config, dirs), umask, outcome)
       IN /\ key_files' = r.files
          /\ cipher_suite' = IF r.raised THEN cipher_suite ELSE r.key
          /\ main' = [main EXCEPT !.pc = PcAfterInit(r.raised)]
  /\ UNCHANGED << config, umask, utils_CIPHER_SUITE, writer_vars, mode_vars, sched_vars, stop_vars, extra_vars, capture_vars, env_vars,
                  disk_vars, store_rest >>

\* How ks_capture.start_capture can end: the listener thread runs; the
\* listener failed within the first half second and start() returned
\* without a word to its caller; start_capture raised.
KeystrokeStarts == {"running", "listener_fails", "raises"}

\* How ss_capture.start_screenshot_scheduler can end: the thread runs its
\* loop; the capturer could not be made and the function returned; the
\* thread returned at once on an interval that is not positive; it raised.
SchedulerStarts == {"running", "capturer_fails", "interval_invalid", "raises"}

\* start_monitoring_services: keystroke_started / screenshot_started are
\* set when the start call did not raise
Started(outcome) == outcome # "raises"

\* The thread of the subsystem runs after the start call
Alive(outcome) == outcome = "running"

\* main() from the decryption branch on: the EULA check, then
\* start_monitoring_services
MainStartMonitoring ==
  /\ main.pc = "initialized"
  /\ IF main.args = "decrypt"
     THEN /\ main' = [main EXCEPT !.pc = "exit_0"]
          /\ UNCHANGED error_log
     ELSE IF ~Truth(ConfigGet(config.eula_accepted, "False"))
     THEN /\ main' = [main EXCEPT !.pc = "exit_1"]
          /\ error_log' = error_log \o
               << ErrLine("Parental Monitor application starting.", FALSE),
                  ErrLine("EULA not accepted.", TRUE) >>
     ELSE \E ko \in KeystrokeStarts, so \in SchedulerStarts :
          LET ks == Started(ko)
              ss == Started(so)
          IN
          /\ main' = [main EXCEPT !.pc = IF ks \/ ss THEN "monitoring" ELSE "exit_1",
                                  !.keystroke_started = ks, !.screenshot_started = ss,
                                  !.listener_alive = Alive(ko),
                                  !.scheduler_alive = Alive(so)]
          /\ error_log' = error_log \o
               << ErrLine("Parental Monitor application starting.", FALSE),
                  ErrLine("EULA accepted.", FALSE) >> \o
               (IF ks THEN <<>> ELSE << ErrLine("Failed to start keystroke capture", TRUE) >>) \o
               (IF so = "capturer_fails"
                THEN << ErrLine("Failed to initialize screenshot capturer", TRUE) >>
                ELSE <<>>) \o
               (IF ss THEN <<>> ELSE << ErrLine("Failed to start screenshot scheduler", TRUE) >>) \o
               (IF ks \/ ss THEN << ErrLine("Monitoring services started.", FALSE) >>
                ELSE << ErrLine("No monitoring services could be started.", TRUE),
                        ErrLine("Exiting due to failure to start monitoring services.", TRUE),
                        ErrLine("Parental Monitor shut down.", FALSE) >>)
  /\ UNCHANGED << config, key_files, umask, utils_CIPHER_SUITE, writer_vars, mode_vars, sched_vars, stop_vars, extra_vars, capture_vars,
                  env_vars, dirs, kwlog, ok_calls, store_vars >>

\* The keystroke side while the agent monitors: handle_keyword_log calls
\* of the listener thread
MainKeyword ==
  /\ main.pc = "monitoring" /\ main.listener_alive
  /\ (LkBegin \/ LkWrite)

\* The scheduler side while the agent monitors: capture ticks of the
\* scheduler thread
MainScreenshot ==
  /\ main.pc = "monitoring" /\ main.scheduler_alive
  /\ (TkCapture \/ TkCliRead \/ TkSave \/ TkWrite)

\* KeyboardInterrupt in the sleep loop of main, then the finally block;
\* taken here when no store call is under way.
MainShutDown ==
  /\ main.pc = "monitoring"
  /\ lk_pc = "idle" /\ tk_pc = "idle"
  /\ main' = [main EXCEPT !.pc = "exit_0", !.keystroke_started = FALSE,
                          !.screenshot_started = FALSE, !.listener_alive = FALSE,
                          !.scheduler_alive = FALSE]
  /\ error_log' = error_log \o
       << ErrLine("KeyboardInterrupt received, shutting down.", FALSE),
          ErrLine("Monitoring services stopped.", FALSE),
          ErrLine("Parental Monitor shut down.", FALSE) >>
  /\ UNCHANGED << config, key_files, umask, utils_CIPHER_SUITE, writer_vars, mode_vars, sched_vars, stop_vars, extra_vars, capture_vars,
                  env_vars, dirs, kwlog, ok_calls, store_vars >>

\* The agent is started again: a new process, whose module globals are unset.
MainStart ==
  /\ main.pc \in {"exit_0", "exit_1"}
  /\ main.runs < MaxRuns
  /\ \E args \in {"monitor", "decrypt"} :
       main' = [pc |-> "start", args |-> args, runs |-> main.runs + 1,
                keystroke_started |-> FALSE, screenshot_started |-> FALSE,
                listener_alive |-> FALSE, scheduler_alive |-> FALSE]
  /\ cipher_suite' = NoKey
  /\ UNCHANGED << config, key_files, umask, utils_CIPHER_SUITE, writer_vars, mode_vars, sched_vars, stop_vars, extra_vars, capture_vars,
                  env_vars, disk_vars, store_rest >>

\* A fresh installation: no key file yet, main() about to mainrun.
InitStartup ==
  /\ InitCaptureFields
  /\ InitDiskFields
  /\ include_processes = {}
  /\ exclude_words = {}
  /\ active_window = [app |-> <<"C", "x">>, title |-> Title("LongDoc", 120)]
  /\ fs = "ok"
  /\ active_backend \in Backends
  /\ cipher_suite = NoKey
  /\ utils_CIPHER_SUITE = NoKey
  /\ key_files = [d \in KeyDirs |-> NoKeyFile]
  /\ sch = NoScheduler
  /\ stp = NoStop
  /\ umask \in Umasks
  /\ config \in [encryption_key_file : KeyFileSettings, eula_accepted : EulaValues]
  /\ main \in [pc : {"start"}, args : {"monitor", "decrypt"}, runs : {1},
               keystroke_started : {FALSE}, screenshot_started : {FALSE},
               listener_alive : {FALSE}, scheduler_alive : {FALSE}]

NextStartup ==
  \/ MainInitializeLogger
  \/ MainStartMonitoring
  \/ MainKeyword
  \/ MainScreenshot
  \/ MainShutDown
  \/ MainStart

SpecStartup == InitStartup /\ [][NextStartup]_vars

\* ------------------------------------------------------ permission bits
MaxOps == 3

modes_frame ==
  << capture_vars, env_vars, cipher_suite, sec, tmp_png, lk_pc, lk_dir, lk_entry,
     active_backend, tk_pc, tk_image, tk_dir, writer_vars, startup_vars, sched_vars,
     stop_vars, extra_vars >>

\* The mode os.makedirs gives a directory it creates
CreateDirMode(mask) == IF mask = "077" THEN "0700" ELSE "0755"

\* A mutation of makedirs: exist_ok is not passed.
MakeDirsError_NoExistOk(partitions, day, outcome) ==
  IF outcome = "fails" THEN "OSError"
  ELSE IF day \in partitions THEN "FileExistsError" ELSE "ok"

\* os.makedirs(screenshots_dir, exist_ok=True): the exception it raises
MakeDirsError(partitions, day, outcome) ==
  IF outcome = "fails" THEN "OSError" ELSE "ok"

\* os.makedirs: a directory that is missing is created, with the mode the
\* umask leaves; one that exists is left as it is.
MakeDirs(m, day, mask) ==
  LET made(old) == IF old = "none" THEN CreateDirMode(mask) ELSE old
  IN [m EXCEPT !.base = made(@), !.daily[day] = made(@), !.screenshots[day] = made(@)]

\* A mutation of ensure_daily_log_dir: the modes are left as created.
ChmodDirs_Skip(m, day) == m

\* ensure_daily_log_dir: the three os.chmod(.., 0o700)
ChmodDirs(m, day) ==
  [m EXCEPT !.base = "0700", !.daily[day] = "0700", !.screenshots[day] = "0700"]

\* open(path, 'ab') or open(path, 'wb'): the mode of the file afterwards
OpenedMode(old, mask) == IF old = "none" THEN CreateFileMode(mask) ELSE old

\* os.chmod(path, 0o600)
ChmodFile(old) == "0600"

\* What ensure_daily_log_dir returns when the date is `day`
DailyDirs(day) ==
  [daily_dir |-> << "base", day >>, screenshots_dir |-> << "base", day, "Screenshots" >>]

\* The store operation up to os.makedirs in ensure_daily_log_dir, which
\* reads the date; a failure is logged and raised.
OpMakeDirs(c) ==
  /\ op[c].pc = "idle"
  /\ cipher_suite # NoKey
  /\ n_calls < MaxOps
  /\ n_calls' = n_calls + 1
  /\ \E outcome \in {"ok", "fails"} :
       LET err == MakeDirsError(dirs, today, outcome)
       IN IF err # "ok"
          THEN /\ op' = [op EXCEPT ![c] = [NoOp EXCEPT !.day = today, !.status = err]]
               /\ error_log' = Append(error_log,
                    ErrLine("Failed to create/set permissions for directory", TRUE))
               /\ UNCHANGED << dirs, modes >>
          ELSE /\ op' = [op EXCEPT ![c] = [NoOp EXCEPT !.pc = "made", !.day = today]]
               /\ dirs' = dirs \cup {today}
               /\ modes' = MakeDirs(modes, today, umask)
               /\ UNCHANGED error_log
  /\ UNCHANGED << kwlog, ok_calls, shots, today >>
  /\ UNCHANGED modes_frame

\* ensure_daily_log_dir from the chmod calls to its return
OpChmodDirs(c) ==
  /\ op[c].pc = "made"
  /\ \E outcome \in {"ok", "fails"} :
       IF outcome = "fails"
       THEN /\ op' = [op EXCEPT ![c].pc = "idle", ![c].status = "OSError"]
            /\ error_log' = Append(error_log,
                 ErrLine("Failed to create/set permissions for directory", TRUE))
            /\ UNCHANGED modes
       ELSE /\ op' = [op EXCEPT ![c].pc = "ensured", ![c].ensured = DailyDirs(op[c].day)]
            /\ modes' = ChmodDirs(modes, op[c].day)
            /\ UNCHANGED error_log
  /\ UNCHANGED << dirs, kwlog, ok_calls, shots, today, n_calls >>
  /\ UNCHANGED modes_frame

\* log_keyword / save_screenshot: the with block that writes the file
OpWrite(c) ==
  /\ op[c].pc = "ensured"
  /\ \E outcome \in {"ok", "fails"} :
       IF outcome = "fails"
       THEN /\ op' = [op EXCEPT ![c].pc = "idle", ![c].status = "logged_error"]
            /\ error_log' = Append(error_log,
                 ErrLine(IF c = "log_keyword" THEN "Failed to write to keyword log"
                         ELSE "Failed to save screenshot", TRUE))
            /\ UNCHANGED << kwlog, ok_calls, shots, modes >>
       ELSE /\ op' = [op EXCEPT ![c].pc = "written",
                                ![c].path = [dir |-> op[c].day, name |-> Clock(today, sec)]]
            /\ UNCHANGED error_log
            /\ IF c = "log_keyword"
               THEN /\ \E keyword_data \in KeywordDatas :
                         SetDisk(LogKeywordWrite(Disk, op[c].day, Clock(today, sec),
                                                 LogEntry(keyword_data), cipher_suite, "ok"))
                    /\ modes' = [modes EXCEPT !.kwlog[op[c].day] = OpenedMode(@, umask)]
                    /\ UNCHANGED shots
               ELSE LET file_path == [dir |-> op[c].day, name |-> Clock(today, sec)]
                    IN /\ \E image_bytes \in Screens :
                            shots' = SaveScreenshotWrite(shots, op[c].day, Clock(today, sec),
                                                         image_bytes, cipher_suite)
                       /\ modes' = [modes EXCEPT !.shots =
                            [q \in DOMAIN modes.shots \cup {file_path} |->
                               IF q \in DOMAIN modes.shots
                               THEN modes.shots[q] ELSE CreateFileMode(umask)]]
                       /\ UNCHANGED << kwlog, ok_calls >>
  /\ UNCHANGED << dirs, today, n_calls >>
  /\ UNCHANGED modes_frame

\* log_keyword / save_screenshot: os.chmod(path, 0o600) and the return
OpChmodFile(c) ==
  /\ op[c].pc = "written"
  /\ \E outcome \in {"ok", "fails"} :
       IF outcome = "fails"
       THEN /\ op' = [op EXCEPT ![c].pc = "idle", ![c].status = "logged_error"]
            /\ error_log' = Append(error_log,
                 ErrLine(IF c = "log_keyword" THEN "Failed to write to keyword log"
                         ELSE "Failed to save screenshot", TRUE))
            /\ UNCHANGED modes
       ELSE /\ op' = [op EXCEPT ![c].pc = "idle", ![c].status = "ok"]
            /\ modes' = IF c = "log_keyword"
                        THEN [modes EXCEPT !.kwlog[op[c].day] = ChmodFile(@)]
                        ELSE [modes EXCEPT !.shots[op[c].path] = ChmodFile(@)]
            /\ UNCHANGED error_log
  /\ UNCHANGED << dirs, kwlog, ok_calls, shots, today, n_calls >>
  /\ UNCHANGED modes_frame

\* The state after initialize_logger, under either umask
InitModes ==
  /\ InitCaptureFields
  /\ umask \in Umasks
  /\ InitInstalledFields
  /\ sch = NoScheduler
  /\ stp = NoStop
  /\ include_processes = {}
  /\ exclude_words = {}
  /\ active_window = [app |-> <<"C", "x">>, title |-> Title("LongDoc", 120)]
  /\ fs = "ok"
  /\ active_backend = "pyscreenshot"

NextModes ==
  \/ \E c \in StoreOps : OpMakeDirs(c) \/ OpChmodDirs(c) \/ OpWrite(c) \/ OpChmodFile(c)
  \/ Midnight

SpecModes == InitModes /\ [][NextModes]_vars

\* -------------------------------------------------- the scheduler loop
MaxSchedSeconds == 130
wait_chunk == 5
error_backoff == 60

sched_frame ==
  << capture_vars, env_vars, cipher_suite, today, sec, tmp_png, lk_pc, lk_dir, lk_entry,
     active_backend, tk_pc, tk_image, tk_dir, n_calls, kwlog, ok_calls, writer_vars,
     startup_vars, mode_vars, stop_vars, extra_vars >>

\* interval_seconds = interval_minutes * 60
IntervalSeconds(interval) == interval.tenths * 6

\* range(interval_seconds // wait_chunk) raises TypeError for a float
RangeRaises(interval) == interval.float

\* What one take_screenshot_and_log call can come to: the image is saved;
\* the capturer returns None; the capturer raises; ensure_daily_log_dir
\* raises inside save_screenshot; the write fails and save_screenshot
\* returns None.
TickOutcomes == {"saved", "no_image", "capture_raises", "mkdir_fails", "write_fails"}

\* take_screenshot_and_log: the lines it and save_screenshot add to error.log
TickErrors(outcome) ==
  IF outcome = "capture_raises"
  THEN << ErrLine("take_screenshot_and_log: Unhandled exception", TRUE) >>
  ELSE IF outcome = "mkdir_fails"
  THEN << ErrLine("Failed to create/set permissions for directory", TRUE),
          ErrLine("take_screenshot_and_log: Unhandled exception", TRUE) >>
  ELSE IF outcome = "write_fails"
  THEN << ErrLine("Failed to save screenshot", TRUE) >>
  ELSE <<>>

\* take_screenshot_and_log returns to the loop whatever happened in it
PcAfterTick(outcome) == "loop"

\* start_screenshot_scheduler, and the thread up to the while loop
SchStart ==
  /\ sch.pc = "not_started"
  /\ IF IntervalSeconds(sch.interval) <= 0
     THEN sch' = [sch EXCEPT !.pc = "returned",
                    !.stdout = Append(@, "Screenshot interval is zero or negative. Scheduler will not mainrun.")]
     ELSE sch' = [sch EXCEPT !.pc = "loop",
                    !.stdout = Append(@, "Screenshot scheduler started.")]
  /\ UNCHANGED << dirs, shots, error_log >>
  /\ UNCHANGED sched_frame

\* while not stop_event.is_set(): ... range(interval_seconds // wait_chunk),
\* with the except clause when range raises
SchLoop ==
  /\ sch.pc = "loop"
  /\ sch.sleep = 0
  /\ IF sch.stop
     THEN /\ sch' = [sch EXCEPT !.pc = "stopped",
                       !.stdout = Append(@, "Screenshot scheduler stopped.")]
          /\ UNCHANGED error_log
     ELSE IF RangeRaises(sch.interval)
     THEN /\ sch' = [sch EXCEPT !.pc = "backoff"]
          /\ error_log' = Append(error_log, ErrLine("Screenshot scheduler loop error", TRUE))
     ELSE /\ sch' = [sch EXCEPT !.pc = "waiting",
                       !.chunks = IntervalSeconds(sch.interval) \div wait_chunk]
          /\ UNCHANGED error_log
  /\ UNCHANGED << dirs, shots >>
  /\ UNCHANGED sched_frame

\* One round of the for loop: the stop check, then time.sleep(wait_chunk)
\* is entered.
SchWaitChunk ==
  /\ sch.pc = "waiting"
  /\ sch.sleep = 0
  /\ IF sch.stop \/ sch.chunks = 0
     THEN sch' = [sch EXCEPT !.pc = "waited"]
     ELSE sch' = [sch EXCEPT !.sleep = wait_chunk, !.chunks = @ - 1]
  /\ UNCHANGED << dirs, shots, error_log >>
  /\ UNCHANGED sched_frame

\* After the for loop: the remaining part of the interval is slept
SchRemainder ==
  /\ sch.pc = "waited"
  /\ sch.sleep = 0
  /\ sch' = [sch EXCEPT !.pc = "tick",
               !.sleep = IF sch.stop THEN 0 ELSE IntervalSeconds(sch.interval) % wait_chunk]
  /\ UNCHANGED << dirs, shots, error_log >>
  /\ UNCHANGED sched_frame

\* The stop check after the wait, then take_screenshot_and_log
SchTick ==
  /\ sch.pc = "tick"
  /\ sch.sleep = 0
  /\ IF sch.stop
     THEN /\ sch' = [sch EXCEPT !.pc = "stopped",
                       !.stdout = Append(@, "Screenshot scheduler stopped.")]
          /\ UNCHANGED << dirs, shots, error_log >>
     ELSE \E outcome \in TickOutcomes :
          /\ sch' = [sch EXCEPT !.ticks = @ + 1, !.pc = PcAfterTick(outcome),
                                !.outcome = outcome]
          /\ error_log' = error_log \o TickErrors(outcome)
          /\ IF outcome = "saved"
             THEN /\ dirs' = dirs \cup {today}
                  /\ \E img \in Screens :
                       shots' = SaveScreenshotWrite(shots, today, Clock(today, sch.t), img,
                                                    cipher_suite)
             ELSE UNCHANGED << dirs, shots >>
  /\ UNCHANGED sched_frame

\* time.sleep(60) in the except clause is entered
SchBackoff ==
  /\ sch.pc = "backoff"
  /\ sch' = [sch EXCEPT !.sleep = error_backoff, !.pc = "loop"]
  /\ UNCHANGED << dirs, shots, error_log >>
  /\ UNCHANGED sched_frame

\* time.sleep returns; a sleep during which the stop event was set counts
\* in full as waiting done after the signal.
SchSleep ==
  /\ sch.sleep > 0
  /\ sch.t + sch.sleep <= MaxSchedSeconds
  /\ sch' = [sch EXCEPT !.t = @ + sch.sleep, !.sleep = 0,
                        !.late = IF sch.stop THEN @ + sch.sleep ELSE @]
  /\ UNCHANGED << dirs, shots, error_log >>
  /\ UNCHANGED sched_frame

\* stop_screenshot_scheduler: _stop_event.set()
SchStop ==
  /\ sch.pc \notin {"not_started", "returned", "stopped"}
  /\ ~sch.stop
  /\ sch' = [sch EXCEPT !.stop = TRUE]
  /\ UNCHANGED << dirs, shots, error_log >>
  /\ UNCHANGED sched_frame

\* The state after initialize_logger, the interval as configured
InitScheduler ==
  /\ InitCaptureFields
  /\ umask = "077"
  /\ InitInstalledFields
  /\ sch \in {[NoScheduler EXCEPT !.interval = i] : i \in Intervals}
  /\ stp = NoStop
  /\ include_processes = {}
  /\ exclude_words = {}
  /\ active_window = [app |-> <<"C", "x">>, title |-> Title("LongDoc", 120)]
  /\ fs = "ok"
  /\ active_backend = "pyscreenshot"

NextScheduler ==
  \/ SchStart
  \/ SchLoop
  \/ SchWaitChunk
  \/ SchRemainder
  \/ SchTick
  \/ SchBackoff
  \/ SchSleep
  \/ SchStop

SpecScheduler == InitScheduler /\ [][NextScheduler]_vars

\* ------------------------------------------- stop_monitoring_services
\* The listener, the watchdog and the scheduler thread while the main
\* thread stops them. A thread waits for its next event, works on one
\* (a log callback or take_screenshot_and_log in progress), or is finished.
MaxStopWrites == 2

\* The word in self.buffer, as submit_word hands it to the log callback
PendingWord ==
  [app |-> <<"C", "x">>, word |-> <<"a", "b">>, title |-> Title("LongDoc", 120)]

stop_frame ==
  << capture_vars, env_vars, cipher_suite, today, sec, tmp_png, lk_pc, lk_dir, lk_entry,
     active_backend, tk_pc, tk_image, tk_dir, n_calls, writer_vars, startup_vars,
     mode_vars, sched_vars, extra_vars >>

\* pynput calls on_press: a character is buffered, or a delimiter sends
\* the buffered word to submit_word
ListenerOnPress ==
  /\ stp.thread["listener"] = "waiting"
  /\ ~stp.pynput_stopped
  /\ \/ /\ ~stp.pending
        /\ stp' = [stp EXCEPT !.pending = TRUE]
     \/ /\ stp.pending
        /\ stp.kw < MaxStopWrites
        /\ stp' = [stp EXCEPT !.thread["listener"] = "working"]
  /\ UNCHANGED << disk_vars, shots >>
  /\ UNCHANGED stop_frame

\* submit_word of the listener: the window lookup, the log callback and
\* log_keyword
ListenerLogCallback ==
  /\ stp.thread["listener"] = "working"
  /\ SetDisk(HandleKeywordLog(Disk, PendingWord, cipher_suite, Clock(today, sec), "ok"))
  /\ stp' = [stp EXCEPT !.thread["listener"] = "waiting", !.pending = FALSE,
                        !.kw = @ + 1]
  /\ UNCHANGED shots
  /\ UNCHANGED stop_frame

\* The pynput listener leaves its event loop once it was told to stop
ListenerFinished ==
  /\ stp.thread["listener"] = "waiting"
  /\ stp.pynput_stopped
  /\ stp' = [stp EXCEPT !.thread["listener"] = "finished"]
  /\ UNCHANGED << disk_vars, shots >>
  /\ UNCHANGED stop_frame

\* _buffer_timeout_checker returns from time.sleep: it flushes a buffer
\* that timed out, whatever self.running says, and tests self.running
\* at the top of the loop only.
TimeoutCheckerWake ==
  /\ stp.thread["watchdog"] = "waiting"
  /\ stp.pending \/ ~stp.running
  /\ \E timed_out \in BOOLEAN :
       IF stp.pending /\ timed_out /\ stp.kw < MaxStopWrites
       THEN stp' = [stp EXCEPT !.thread["watchdog"] = "working"]
       ELSE /\ ~stp.running
            /\ stp' = [stp EXCEPT !.thread["watchdog"] = "finished"]
  /\ UNCHANGED << disk_vars, shots >>
  /\ UNCHANGED stop_frame

\* process_buffer(force_flush=True) of the watchdog, then the loop test
TimeoutCheckerFlush ==
  /\ stp.thread["watchdog"] = "working"
  /\ SetDisk(HandleKeywordLog(Disk, PendingWord, cipher_suite, Clock(today, sec), "ok"))
  /\ stp' = [stp EXCEPT !.thread["watchdog"] = IF stp.running THEN "waiting" ELSE "finished",
                        !.pending = FALSE, !.kw = @ + 1]
  /\ UNCHANGED shots
  /\ UNCHANGED stop_frame

\* The scheduler loop finds the interval over and the stop event unset:
\* take_screenshot_and_log begins
SchedulerTakeScreenshot ==
  /\ stp.thread["scheduler"] = "waiting"
  /\ ~stp.stop_event
  /\ stp.shot < MaxStopWrites
  /\ stp' = [stp EXCEPT !.thread["scheduler"] = "working"]
  /\ UNCHANGED << disk_vars, shots >>
  /\ UNCHANGED stop_frame

\* take_screenshot_and_log: the capture has returned, save_screenshot
SchedulerSaveScreenshot ==
  /\ stp.thread["scheduler"] = "working"
  /\ shots' = SaveScreenshotWrite(shots, today, Clock(today, stp.shot), "png1",
                                  cipher_suite)
  /\ dirs' = dirs \cup {today}
  /\ stp' = [stp EXCEPT !.thread["scheduler"] = "waiting", !.shot = @ + 1]
  /\ UNCHANGED << kwlog, error_log, ok_calls >>
  /\ UNCHANGED stop_frame

\* The scheduler loop sees the stop event at one of its checks
SchedulerStopped ==
  /\ stp.thread["scheduler"] = "waiting"
  /\ stp.stop_event
  /\ stp' = [stp EXCEPT !.thread["scheduler"] = "finished"]
  /\ UNCHANGED << disk_vars, shots >>
  /\ UNCHANGED stop_frame

\* What a join with a timeout leaves behind: the thread has finished, or
\* the timeout has expired on a thread that is still alive.
Joined(st, th, report) ==
  IF st.thread[th] = "finished" THEN st
  ELSE [st EXCEPT !.timed_out = @ \cup {th},
                  !.reported = IF report THEN @ \cup {th} ELSE @]

\* KeyboardInterrupt in main's sleep loop, stop_monitoring_services,
\* stop_capture, LinuxKeyCapture.stop up to the first join
StopCapture ==
  /\ stp.pc = "monitoring"
  /\ stp' = [stp EXCEPT !.pc = "join_listener", !.running = FALSE,
               !.pynput_stopped = TRUE,
               !.error_files = LogError(@, ConfigData(stp.cwd, stp.holders, stp.log_directory),
                                 stp.cwd,
                                 ErrLine("KeyboardInterrupt received, shutting down.", FALSE))]
  /\ UNCHANGED << disk_vars, shots >>
  /\ UNCHANGED stop_frame

\* listener_thread.join(timeout=2) and the is_alive test: a listener that
\* waits for an event ends at once, one inside a callback may outlast
\* the timeout.
JoinListenerThread ==
  /\ stp.pc = "join_listener"
  /\ stp.thread["listener"] # "waiting"
  /\ stp' = [Joined(stp, "listener", TRUE) EXCEPT !.pc = "join_watchdog"]
  /\ UNCHANGED << disk_vars, shots >>
  /\ UNCHANGED stop_frame

\* timeout_thread.join(timeout=1): the watchdog sleeps 2.5 s at a time, so
\* the timeout can expire in any of its states; nothing is tested after it.
JoinTimeoutThread ==
  /\ stp.pc = "join_watchdog"
  /\ stp' = [Joined(stp, "watchdog", FALSE) EXCEPT !.pc = "flush"]
  /\ UNCHANGED << disk_vars, shots >>
  /\ UNCHANGED stop_frame

\* LinuxKeyCapture.stop: `if self.buffer: process_buffer(force_flush=True)`,
\* then stop_screenshot_scheduler sets the stop event
StopFlushBuffer ==
  /\ stp.pc = "flush"
  /\ IF stp.pending
     THEN /\ SetDisk(HandleKeywordLog(Disk, PendingWord, cipher_suite,
                                        Clock(today, sec), "ok"))
          /\ stp' = [stp EXCEPT !.pc = "join_scheduler", !.stop_event = TRUE,
                                !.pending = FALSE, !.kw = @ + 1]
     ELSE /\ stp' = [stp EXCEPT !.pc = "join_scheduler", !.stop_event = TRUE]
          /\ UNCHANGED disk_vars
  /\ UNCHANGED shots
  /\ UNCHANGED stop_frame

\* _scheduler_thread.join(timeout=10) and the is_alive test, then the end
\* of stop_monitoring_services: a waiting loop sees the event within one
\* slice, a capture in progress may outlast the timeout.
JoinSchedulerThread ==
  /\ stp.pc = "join_scheduler"
  /\ stp.thread["scheduler"] # "waiting"
  /\ stp' = [Joined(stp, "scheduler", TRUE) EXCEPT !.pc = "returned",
               !.error_files = LogError(@, LoadConfig(stp.log_directory), stp.cwd,
                                 ErrLine("Monitoring services stopped.", FALSE))]
  /\ UNCHANGED << disk_vars, shots >>
  /\ UNCHANGED stop_frame

\* The finally block of main after stop_monitoring_services, and the end
\* of the process, which ends its daemon threads
MainFinally ==
  /\ stp.pc = "returned"
  /\ stp' = [stp EXCEPT !.pc = "exited",
               !.thread = [th \in Spawned |-> "finished"],
               !.error_files = LogError(@, ConfigData(stp.cwd, stp.holders, stp.log_directory),
                                 stp.cwd, ErrLine("Parental Monitor shut down.", FALSE))]
  /\ UNCHANGED << disk_vars, shots >>
  /\ UNCHANGED stop_frame

\* The agent monitoring, in any working directory, with the configuration
\* file in any of its places; without a file the defaults apply.
InitStop ==
  /\ InitCaptureFields
  /\ umask = "077"
  /\ InitInstalledFields
  /\ sch = NoScheduler
  /\ \E cwd \in Cwds, holders \in ConfigHolders, log_directory \in LogDirectories :
       /\ holders = {} => log_directory = DefaultLogDirectory
       /\ stp = Monitoring(cwd, holders, log_directory)
  /\ include_processes = {}
  /\ exclude_words = {}
  /\ active_window = [app |-> <<"C", "x">>, title |-> Title("LongDoc", 120)]
  /\ fs = "ok"
  /\ active_backend = "pyscreenshot"

NextStop ==
  \/ ListenerOnPress
  \/ ListenerLogCallback
  \/ ListenerFinished
  \/ TimeoutCheckerWake
  \/ TimeoutCheckerFlush
  \/ SchedulerTakeScreenshot
  \/ SchedulerSaveScreenshot
  \/ SchedulerStopped
  \/ StopCapture
  \/ JoinListenerThread
  \/ JoinTimeoutThread
  \/ StopFlushBuffer
  \/ JoinSchedulerThread
  \/ MainFinally

SpecStop == InitStop /\ [][NextStop]_vars

\* ------------------------------------------------- the configuration loader
\* One process that calls load_config again and again while config.yaml is
\* written, rewritten and removed between the calls.
loader_frame ==
  << capture_vars, env_vars, disk_vars, store_vars, writer_vars, startup_vars,
     mode_vars, sched_vars, stop_vars, decrypt_vars, try_vars, session_vars,
     window_vars, keyrace_vars >>

\* save_config: config.yaml is written with the given settings
SaveConfig ==
  /\ \E config_data \in UserConfigs : config_file' = config_data
  /\ UNCHANGED << DEFAULT_CONFIG, loaded >>
  /\ UNCHANGED loader_frame

\* config.yaml is removed, as the tests' setUp does
RemoveConfigFile ==
  /\ config_file # NoConfigFile
  /\ config_file' = NoConfigFile
  /\ UNCHANGED << DEFAULT_CONFIG, loaded >>
  /\ UNCHANGED loader_frame

\* load_config()
LoadConfigCall ==
  /\ IF config_file # NoConfigFile /\ config_file.keys # {}
     THEN LET r == MergeUserConfig(DEFAULT_CONFIG, config_file)
          IN /\ loaded' = [called |-> TRUE, found |-> config_file, config |-> r.config]
             /\ DEFAULT_CONFIG' = r.DEFAULT_CONFIG
     ELSE /\ loaded' = [called |-> TRUE, found |-> config_file, config |-> DEFAULT_CONFIG]
          /\ UNCHANGED DEFAULT_CONFIG
  /\ UNCHANGED config_file
  /\ UNCHANGED loader_frame

InitConfig ==
  /\ InitCaptureFields
  /\ InitStoreFields
  /\ include_processes = {}
  /\ exclude_words = {}
  /\ active_window = [app |-> <<"C", "x">>, title |-> Title("LongDoc", 120)]
  /\ fs = "ok"
  /\ active_backend = "pyscreenshot"

NextConfig ==
  \/ SaveConfig
  \/ RemoveConfigFile
  \/ LoadConfigCall

SpecConfig == InitConfig /\ [][NextConfig]_vars

\* ------------------------------------------------------- decrypt calls
\* decrypt_data and utils.decrypt applied to what a data file can hold: a
\* token made under one of the keys, whole, cut short or with bytes changed.
DecryptKeys == {KeyNames[1], KeyNames[2], KeyNames[3]}
KeywordLines == {FullLogEntry(Clock(0, 0), LogEntry(d)) : d \in KeywordDatas}
Ciphertexts(plaintexts) ==
  LET tokens == {Encrypt(k, d) : k \in DecryptKeys, d \in plaintexts}
  IN tokens \cup {Truncated(t) : t \in tokens} \cup {Corrupted(t) : t \in tokens}

decrypt_frame ==
  << capture_vars, env_vars, disk_vars, store_vars, writer_vars, startup_vars,
     mode_vars, sched_vars, stop_vars, loader_vars, try_vars, session_vars,
     window_vars, keyrace_vars >>

\* logger.decrypt_data(encrypted_data_bytes, key_bytes)
DecryptDataCall(plaintexts) ==
  /\ \E key_bytes \in DecryptKeys, encrypted_data_bytes \in Ciphertexts(plaintexts) :
       dec' = [called |-> TRUE, fn |-> "decrypt_data", key |-> key_bytes,
               token |-> encrypted_data_bytes,
               result |-> DecryptData(encrypted_data_bytes, key_bytes)]
  /\ UNCHANGED decrypt_frame

\* utils.decrypt(token_bytes), with utils._CIPHER_SUITE set or not
UtilsDecryptCall(plaintexts) ==
  /\ \E cipher \in DecryptKeys \cup {NoKey}, token_bytes \in Ciphertexts(plaintexts) :
       dec' = [called |-> TRUE, fn |-> "utils.decrypt", key |-> cipher,
               token |-> token_bytes, result |-> UtilsDecrypt(cipher, token_bytes)]
  /\ UNCHANGED decrypt_frame

NextDecrypt ==
  \/ DecryptDataCall(Screens)
  \/ DecryptDataCall(KeywordLines)
  \/ UtilsDecryptCall(Screens)
  \/ UtilsDecryptCall(KeywordLines)

SpecDecrypt == InitConfig /\ [][NextDecrypt]_vars

\* ------------------------------------------------ the try statement of main
\* main() from `try: start_monitoring_services(config_data)` to the end of
\* its finally block, statement by statement; KeyboardInterrupt and other
\* exceptions arrive between any two of them.
MaxTryKeys == 2

try_frame ==
  << capture_vars, env_vars, store_vars, writer_vars, startup_vars, mode_vars,
     sched_vars, stop_vars, loader_vars, decrypt_vars, session_vars,
     window_vars, keyrace_vars >>

\* start_monitoring_services: ks_capture.start_capture and its except clauses
TryStartCapture ==
  /\ mainrun.pc = "try"
  /\ \E ko \in KeystrokeStarts :
       /\ mainrun' = [mainrun EXCEPT !.pc = "capture_called",
                             !.keystroke_started = Started(ko),
                             !.capture = IF Alive(ko) THEN "running" ELSE "none"]
       /\ error_log' = error_log \o
            (IF Started(ko) THEN <<>>
             ELSE << ErrLine("Failed to start keystroke capture", TRUE) >>)
  /\ UNCHANGED << dirs, kwlog, ok_calls >>
  /\ UNCHANGED try_frame

\* start_monitoring_services: ss_capture.start_screenshot_scheduler and its
\* except clauses
TryStartScheduler ==
  /\ mainrun.pc = "capture_called"
  /\ \E so \in SchedulerStarts :
       /\ mainrun' = [mainrun EXCEPT !.pc = "scheduler_called",
                             !.screenshot_started = Started(so),
                             !.scheduler = IF Alive(so) THEN "running" ELSE "none"]
       /\ error_log' = error_log \o
            (IF so = "capturer_fails"
             THEN << ErrLine("Failed to initialize screenshot capturer", TRUE) >>
             ELSE <<>>) \o
            (IF Started(so) THEN <<>>
             ELSE << ErrLine("Failed to start screenshot scheduler", TRUE) >>)
  /\ UNCHANGED << dirs, kwlog, ok_calls >>
  /\ UNCHANGED try_frame

\* start_monitoring_services from `monitoring_active = ...` on, then main's
\* test of monitoring_active: the sleep loop, or sys.exit(1)
TryMonitoringActive ==
  /\ mainrun.pc = "scheduler_called"
  /\ LET active == mainrun.keystroke_started \/ mainrun.screenshot_started
     IN /\ mainrun' = [mainrun EXCEPT !.monitoring_active = active,
                              !.pc = IF active THEN "loop" ELSE "finally",
                              !.raised = IF active THEN "none" ELSE "SystemExit"]
        /\ error_log' = error_log \o
             (IF active THEN << ErrLine("Monitoring services started.", FALSE) >>
              ELSE << ErrLine("No monitoring services could be started.", TRUE),
                      ErrLine("Exiting due to failure to start monitoring services.", TRUE) >>)
  /\ UNCHANGED << dirs, kwlog, ok_calls >>
  /\ UNCHANGED try_frame

\* The listener thread while the process lives: characters are buffered, a
\* delimiter sends the buffered word to the log callback
TryOnPress ==
  /\ mainrun.capture = "running"
  /\ mainrun.pc # "exited"
  /\ mainrun.keys < MaxTryKeys
  /\ IF mainrun.buffered
     THEN /\ SetDisk(HandleKeywordLog(Disk, PendingWord, cipher_suite, Clock(today, sec), "ok"))
          /\ mainrun' = [mainrun EXCEPT !.buffered = FALSE, !.keys = @ + 1]
     ELSE /\ mainrun' = [mainrun EXCEPT !.buffered = TRUE, !.keys = @ + 1]
          /\ UNCHANGED disk_vars
  /\ UNCHANGED try_frame

\* An exception reaches main's except clauses: KeyboardInterrupt, or any
\* other Exception
TryRaise ==
  /\ mainrun.pc \in {"capture_called", "scheduler_called", "loop"}
  /\ \E e \in {"KeyboardInterrupt", "Exception"} :
       /\ mainrun' = [mainrun EXCEPT !.pc = "finally", !.raised = e]
       /\ error_log' = error_log \o
            << IF e = "KeyboardInterrupt"
               THEN ErrLine("KeyboardInterrupt received, shutting down.", FALSE)
               ELSE ErrLine("Unexpected error in main", TRUE) >>
  /\ UNCHANGED << dirs, kwlog, ok_calls >>
  /\ UNCHANGED try_frame

\* finally: stop_monitoring_services(). It returns at once unless
\* monitoring_active; else stop_capture flushes the buffer of a running
\* capture, the scheduler is stopped and the event is logged.
FinallyStopMonitoring ==
  /\ mainrun.pc = "finally"
  /\ IF ~mainrun.monitoring_active
     THEN /\ mainrun' = [mainrun EXCEPT !.pc = "stop_returned"]
          /\ UNCHANGED disk_vars
     ELSE LET flush == mainrun.capture = "running" /\ mainrun.buffered
              d == IF flush
                   THEN HandleKeywordLog(Disk, PendingWord, cipher_suite, Clock(today, sec), "ok")
                   ELSE Disk
          IN /\ SetDisk([d EXCEPT !.error_log =
                                 @ \o << ErrLine("Monitoring services stopped.", FALSE) >>])
             /\ mainrun' = [mainrun EXCEPT !.pc = "stop_returned", !.monitoring_active = FALSE,
                                   !.buffered = IF flush THEN FALSE ELSE @,
                                   !.capture = IF @ = "running" THEN "stopped" ELSE @,
                                   !.scheduler = IF @ = "running" THEN "stopped" ELSE @]
  /\ UNCHANGED try_frame

\* finally: the 'shut down' event, then the process ends and its daemon
\* threads with it
FinallyShutDown ==
  /\ mainrun.pc = "stop_returned"
  /\ mainrun' = [mainrun EXCEPT !.pc = "exited",
                        !.capture = IF @ = "running" THEN "killed" ELSE @,
                        !.scheduler = IF @ = "running" THEN "killed" ELSE @]
  /\ error_log' = Append(error_log, ErrLine("Parental Monitor shut down.", FALSE))
  /\ UNCHANGED << dirs, kwlog, ok_calls >>
  /\ UNCHANGED try_frame

NextTry ==
  \/ TryStartCapture
  \/ TryStartScheduler
  \/ TryMonitoringActive
  \/ TryOnPress
  \/ TryRaise
  \/ FinallyStopMonitoring
  \/ FinallyShutDown

SpecTry == InitConfig /\ [][NextTry]_vars

\* ------------------------------------------- start_capture / stop_capture
\* The package interface called in any order, and words typed in between.
session_frame ==
  << capture_vars, env_vars, disk_vars, store_vars, writer_vars, startup_vars,
     mode_vars, sched_vars, stop_vars, loader_vars, decrypt_vars, try_vars,
     window_vars, keyrace_vars >>

\* The sessions whose listener thread runs
RunningSessions(c) == {i \in DOMAIN c.sessions : c.sessions[i] = "running"}

\* start_capture(config, log_callback): a new LinuxKeyCapture is bound to
\* _capture_instance and started; its listener runs, or fails within the
\* first half second.
StartCaptureCall ==
  /\ cap.made < MaxStarts
  /\ \E ko \in {"running", "listener_fails"} :
       cap' = [cap EXCEPT !.made = @ + 1, !.instance = cap.made + 1,
                 !.sessions[cap.made + 1] = IF Alive(ko) THEN "running" ELSE "failed"]
  /\ UNCHANGED session_frame

\* stop_capture(): the instance _capture_instance names is stopped, if any
StopCaptureCall ==
  /\ cap.instance # 0
  /\ cap' = [cap EXCEPT !.instance = 0,
                        !.sessions[cap.instance] = IF @ = "running" THEN "stopped" ELSE @]
  /\ UNCHANGED session_frame

\* A word and a delimiter are typed: every running listener hands the word
\* to its log callback
TypeWord ==
  /\ Len(cap.delivered) < MaxWords
  /\ cap' = [cap EXCEPT !.delivered = Append(@, Cardinality(RunningSessions(cap)))]
  /\ UNCHANGED session_frame

NextSessions ==
  \/ StartCaptureCall
  \/ StopCaptureCall
  \/ TypeWord

SpecSessions == InitConfig /\ [][NextSessions]_vars

\* --------------------------------------------- windows and typed words
\* The listener thread under an include-process list, the user switching
\* windows between key events; the history records where each character
\* was typed.
window_frame ==
  << writer_vars, startup_vars, mode_vars, sched_vars, stop_vars, loader_vars,
     decrypt_vars, try_vars, session_vars, keyrace_vars >>

Suffix(s, n) == SubSeq(s, Len(s) - n + 1, Len(s))
AppsOf(apps) == {apps[i] : i \in DOMAIN apps}

\* on_press(key): the character joins the buffer in the window in front;
\* a delimiter runs process_buffer, whose submit_word asks for the active
\* window then.
WinOnPress ==
  /\ Len(keys) < MaxWindowKeys
  /\ \E key \in Keys :
       /\ OnPressEffect(key)
       /\ LET from == IF key \in Chars
                      THEN Append(typed.buffer_from, active_window.app)
                      ELSE typed.buffer_from
              word_from == AppsOf(typed.buffer_from)
          IN typed' =
               [buffer_from |-> Suffix(from, Len(buffer')),
                logged_from |->
                  typed.logged_from \o
                    [i \in 1..(Len(logged') - Len(logged)) |-> word_from]]
  /\ UNCHANGED << listener_frame, env_vars, store_vars, window_frame >>

InitWindows ==
  /\ InitCaptureFields
  /\ InitStoreFields
  /\ include_processes \in {c.incl : c \in FilterConfigs} \ {{}}
  /\ exclude_words = {}
  /\ active_window \in ActiveWindows
  /\ fs = "ok"
  /\ active_backend = "pyscreenshot"

NextWindows == WinOnPress \/ FltSwitchWindow

SpecWindows == InitWindows /\ [][NextWindows]_vars

\* ------------------------------------- concurrent load_or_generate_key
\* Two processes initialize the logger of one installation at the same
\* time; the key file is shared, each process has its own cipher_suite.
keyrace_frame ==
  << capture_vars, env_vars, disk_vars, store_vars, writer_vars, main, config,
     umask, utils_CIPHER_SUITE, mode_vars, sched_vars, stop_vars, loader_vars,
     decrypt_vars, try_vars, session_vars, window_vars >>

KeyDir == config.encryption_key_file

\* os.path.exists(key_path)
KrExists(p) ==
  /\ kr.procs[p].pc = "start"
  /\ kr' = [kr EXCEPT !.procs[p].pc =
                        IF key_files[KeyDir] # NoKeyFile THEN "read" ELSE "generate"]
  /\ UNCHANGED << key_files, keyrace_frame >>

\* open(key_path, 'rb'), f.read(), Fernet(key): a file opened for writing
\* by another process and not yet written is empty, and Fernet raises
KrRead(p) ==
  /\ kr.procs[p].pc = "read"
  /\ kr' = [kr EXCEPT !.procs[p] =
                        IF key_files[KeyDir].content = "empty"
                        THEN [pc |-> "raised", key |-> NoKey]
                        ELSE [pc |-> "done", key |-> key_files[KeyDir].content]]
  /\ UNCHANGED << key_files, keyrace_frame >>

\* Fernet.generate_key() and os.makedirs(..., exist_ok=True)
KrGenerate(p) ==
  /\ kr.procs[p].pc = "generate"
  /\ kr' = [kr EXCEPT !.procs[p] = [pc |-> "open", key |-> KeyNames[kr.generated + 1]],
                      !.generated = @ + 1]
  /\ UNCHANGED << key_files, keyrace_frame >>

\* open(key_path, 'wb'): the file is created, or truncated when it exists
KrOpen(p) ==
  /\ kr.procs[p].pc = "open"
  /\ kr' = [kr EXCEPT !.procs[p].pc = "write"]
  /\ key_files' =
       [key_files EXCEPT ![KeyDir] =
          [content |-> "empty",
           mode |-> IF @ = NoKeyFile THEN CreateFileMode(umask) ELSE @.mode]]
  /\ UNCHANGED keyrace_frame

\* f.write(key) and the close at the end of the with block; the process
\* goes on with Fernet(key)
KrWrite(p) ==
  /\ kr.procs[p].pc = "write"
  /\ kr' = [kr EXCEPT !.procs[p].pc = "done"]
  /\ key_files' = [key_files EXCEPT ![KeyDir].content = kr.procs[p].key]
  /\ UNCHANGED keyrace_frame

\* The process encrypts a record under its cipher_suite and stores it
KrEncrypt(p) ==
  /\ kr.procs[p].pc = "done"
  /\ kr' = [kr EXCEPT !.procs[p].pc = "logged"]
  /\ UNCHANGED << key_files, keyrace_frame >>

InitKeyRace ==
  /\ InitCaptureFields
  /\ InitDiskFields
  /\ include_processes = {}
  /\ exclude_words = {}
  /\ active_window = [app |-> <<"C", "x">>, title |-> Title("LongDoc", 120)]
  /\ fs = "ok"
  /\ active_backend = "pyscreenshot"
  /\ cipher_suite = NoKey
  /\ utils_CIPHER_SUITE = NoKey
  /\ key_files = [d \in KeyDirs |-> NoKeyFile]
  /\ sch = NoScheduler
  /\ stp = NoStop
  /\ umask \in Umasks
  /\ config = [encryption_key_file |-> "config_dir", eula_accepted |-> "True"]
  /\ main = [pc |-> "start", args |-> "monitor", runs |-> 1,
             keystroke_started |-> FALSE, screenshot_started |-> FALSE,
             listener_alive |-> FALSE, scheduler_alive |-> FALSE]

NextKeyRace ==
  \E p \in Procs :
    \/ KrExists(p)
    \/ KrRead(p)
    \/ KrGenerate(p)
    \/ KrOpen(p)
    \/ KrWrite(p)
    \/ KrEncrypt(p)

SpecKeyRace == InitKeyRace /\ [][NextKeyRace]_vars

\* ------------------------------------------------------------------ C1
UnderInstallKey(x) == IsToken(x) /\ x.key = InstallKey

\* C1 as claimed: in every state, every file that holds keyword text or a
\* screenshot image (the keyword logs, the saved screenshots, the capture
\* tool's temporary file) holds only ciphertext under the installation key.
C1_NoPlaintextOnDisk ==
  /\ \A d \in Days : \A i \in DOMAIN kwlog[d] :
       kwlog[d][i] = NL \/ UnderInstallKey(kwlog[d][i])
  /\ \A q \in DOMAIN shots : UnderInstallKey(shots[q])
  /\ tmp_png = NoFile

\* ------------------------------------------------------------------ C2
\* The maximal runs of characters between the delimiters of a key sequence.
RECURSIVE Runs(_, _)
Runs(ks, cur) ==
  LET done == IF cur = <<>> THEN <<>> ELSE <<cur>>
  IN IF ks = <<>> THEN done
     ELSE IF Head(ks) \in Delimiters THEN done \o Runs(Tail(ks), <<>>)
     ELSE IF Head(ks) \in Chars THEN Runs(Tail(ks), Append(cur, Head(ks)))
     ELSE Runs(Tail(ks), cur)

ExpectedWords(ks) ==
  LET runs == Runs(ks, <<>>)
  IN SelectIdx([i \in 1..Len(runs) |-> Lower(runs[i])],
               {i \in 1..Len(runs) : Len(runs[i]) >= 2})

EndsInDelimiter == keys # <<>> /\ keys[Len(keys)] \in Delimiters

\* C2: after a key sequence that ends in a delimiter, the words emitted by
\* the listener are exactly the maximal runs of at least 2 characters between
\* delimiters, in typing order, lower-cased.
C2_OneWordPerRun == EndsInDelimiter => emitted = ExpectedWords(keys)

\* Two words from one sequence, one of them typed with an upper-case letter.
C2_Witness ==
  /\ EndsInDelimiter
  /\ Len(emitted) = 2
  /\ \E i \in DOMAIN keys : keys[i] = "B"
  /\ \E i \in DOMAIN keys : keys[i] = SHIFT \/ keys[i] = TAB

\* ------------------------------------------------------------- C3, C4
ExcludeHit(cand) == \E x \in exclude_words : Contains(x, Lower(Strip(cand)))
IncludeMatch(win) ==
  include_processes = {} \/ \E p \in include_processes : Contains(p, Lower(win.app))

\* C3 as claimed: a candidate of at least 2 characters is rejected if and only
\* if an exclude substring occurs in it.
C3_RejectIffExcluded ==
  \A i \in DOMAIN submits :
    submits[i].passed => (~ submits[i].called <=> ExcludeHit(submits[i].cand))

\* C3 as amended: a candidate in which an exclude substring occurs is
\* rejected, whatever window is active (exclude always wins).
C3_ExcludedIsRejected ==
  \A i \in DOMAIN submits : ExcludeHit(submits[i].cand) => ~ submits[i].called

\* A word containing (not equal to) an exclude substring, typed into a window
\* of an included process, was rejected.
C3_Witness ==
  \E i \in DOMAIN submits :
    /\ ExcludeHit(submits[i].cand)
    /\ Len(submits[i].cand) = 3
    /\ include_processes # {}
    /\ IncludeMatch(submits[i].win)
    /\ ~ submits[i].called

\* C4: a candidate that reached and passed the exclude check is handed to the
\* log callback if and only if the include list is empty or the lower-cased
\* process name contains an include substring.
C4_IncludeDecides ==
  \A i \in DOMAIN submits :
    (submits[i].passed /\ ~ ExcludeHit(submits[i].cand)) =>
      /\ submits[i].called <=> IncludeMatch(submits[i].win)
      /\ include_processes = {} => submits[i].called
      /\ submits[i].called =>
           /\ logged # <<>>
           /\ logged[Len(logged)].word = Lower(Strip(submits[i].cand))
           /\ logged[Len(logged)].app = submits[i].win.app

\* A word logged because the process name matches only after lower-casing.
C4_Witness ==
  \E i \in DOMAIN submits :
    /\ submits[i].called
    /\ include_processes # {}
    /\ ~ \E p \in include_processes : Contains(p, submits[i].win.app)

\* ------------------------------------------------------------------ C5
\* C5: every word handed to the log callback, and every entry written to a
\* keyword log, has at least 2 characters; a shorter candidate is dropped
\* without a callback call and without a line in the error log.
C5_NoShortWords ==
  /\ \A i \in DOMAIN logged : Len(logged[i].word) >= 2
  /\ \A d \in Days : \A i \in DOMAIN ok_calls[d] : Len(ok_calls[d][i].word) >= 2
  /\ \A i \in DOMAIN submits :
       Len(Strip(submits[i].cand)) < 2 =>
         ~ submits[i].called /\ submits[i].errors = 0

\* A one-character candidate was dropped by a flush no delimiter caused (the
\* watchdog's or stop's), in a session that has logged a word and an error.
C5_Witness ==
  /\ \E i \in DOMAIN submits : Len(submits[i].cand) = 1 /\ ~ submits[i].called
  /\ keys # <<>> /\ keys[Len(keys)] \in Chars
  /\ logged # <<>>
  /\ error_log # <<>>

\* ------------------------------------------------------------------ C6
\* C6 as claimed: while the session runs, a non-empty buffer is flushed by
\* the watchdog's first check after timeoutSeconds have passed since the last
\* character, so it never holds a character older than timeout + period.
C6_FlushedAfterTimeout ==
  (running /\ buffer # <<>>) =>
    now - last_char_time <= buffer_timeout_units + sleep_units

\* ------------------------------------------------------------------ C7
\* C7 as claimed: once stop() and the watchdog have ended, a partial word of
\* at least 2 characters that was buffered when stop() began has produced
\* exactly one more callback call.
C7_StopFlushesOnce ==
  (SessionOver /\ Len(Strip(stop_buffer)) >= 2) =>
    Len(logged) = stop_logged + 1

\* ------------------------------------------------------------------ C8
Count(c, seq) == Cardinality({i \in DOMAIN seq : seq[i] = c})
Typed == SelectIdx(keys, {i \in DOMAIN keys : keys[i] \in Chars})
NoFlushInFlight == wd_pc \notin {"read", "write"} /\ st_pc # "write"

\* C8 as claimed: whenever no flush is in flight, every character appended by
\* on_press is in the buffer or in exactly one candidate handed to
\* submit_word: none dropped, none handed over twice.
C8_EveryCharOnce ==
  NoFlushInFlight =>
    \A c \in Chars : Count(c, Typed) = Count(c, cand_chars) + Count(c, buffer)

\* ------------------------------------------------------------------ C9
\* C9 as claimed: no step changes the keyword log of a day earlier than the
\* local date the step starts in.
C9_NoWriteToPreviousDay ==
  [][\A d \in Days : d < today => kwlog'[d] = kwlog[d]]_vars

\* ----------------------------------------------------------------- C10
IsPrefix(s, t) == Len(s) <= Len(t) /\ SubSeq(t, 1, Len(s)) = s

\* The keyword log of day d holds one record per successful call, in call
\* order: a ciphertext block that decrypts to a line containing the entry,
\* then one separator.
RecordsMatchCalls(d) ==
  /\ Len(kwlog[d]) = 2 * Len(ok_calls[d])
  /\ \A i \in DOMAIN ok_calls[d] :
       /\ IsToken(kwlog[d][2 * i - 1])
       /\ Decrypt(InstallKey, kwlog[d][2 * i - 1]) # InvalidToken
       /\ Decrypt(InstallKey, kwlog[d][2 * i - 1]).entry = ok_calls[d][i]
       /\ Decrypt(InstallKey, kwlog[d][2 * i - 1]).nl
       /\ kwlog[d][2 * i] = NL

WholeRecords(file) ==
  /\ Len(file) % 2 = 0
  /\ \A i \in DOMAIN file :
       IF i % 2 = 1 THEN IsToken(file[i]) ELSE file[i] = NL

\* C11 as claimed: whenever no log_keyword call is in flight, every keyword
\* log consists of whole records, whatever the interleaving of the calls.
C11_WritesSerialized ==
  (\A t \in Threads : wr[t].pc = "idle") => \A d \in Days : WholeRecords(kwlog[d])

\* ----------------------------------------------------------------- C12
\* The file save_screenshot writes in this step, when it writes one
SavedPath == [dir |-> tk_dir, name |-> Clock(today, sec)]
SavesScreenshot == tk_pc = "write" /\ tk_pc' = "idle" /\ shots' # shots

FirstKey == KeyNames[1]

\* C13 as claimed: while the key file written at first generation is there,
\* no initialize_logger call writes a key file, and the cipher of the
\* process, once set, is made from that first key.
C13_KeyNeverRegenerated ==
  (\E d \in KeyDirs : key_files[d].content = FirstKey) =>
     /\ \A d \in KeyDirs : key_files[d].content \in {NoKey, FirstKey}
     /\ cipher_suite \in {NoKey, FirstKey}

\* ----------------------------------------------------------------- C14
\* C14 as claimed: once initialize_logger has returned, the cipher of the
\* utils module is the one made from the key file, and utils.decrypt
\* decrypts every record and every screenshot the store has written.
C14_UtilsCipherInitialized ==
  main.pc \in {"initialized", "monitoring"} =>
     /\ utils_CIPHER_SUITE = cipher_suite
     /\ \A d \in Days : \A i \in DOMAIN kwlog[d] :
          IsToken(kwlog[d][i]) =>
            UtilsDecrypt(utils_CIPHER_SUITE, kwlog[d][i]) = [output |-> kwlog[d][i].data]
     /\ \A q \in DOMAIN shots :
          UtilsDecrypt(utils_CIPHER_SUITE, shots[q]) = [output |-> shots[q].data]

\* ----------------------------------------------------------------- C15
\* initialize_logger has raised in this process: main has exited and the
\* cipher was never set.
InitFailed == main.pc = "exit_1" /\ cipher_suite = NoKey
CapturedData == << kwlog, shots, tmp_png, dirs, ok_calls >>

\* C15: when initialize_logger raises, main goes straight to exit; in a
\* process whose initialization failed neither capture service is ever
\* started and nothing captured is written, in any form; and whatever is
\* written is written by a process that monitors with a cipher.
C15_InitFailureAborts ==
  /\ [][main.pc = "start" /\ main'.pc # "start" /\ cipher_suite' = NoKey
          => InitFailed']_vars
  /\ [](InitFailed => ~main.keystroke_started /\ ~main.screenshot_started)
  /\ [][InitFailed => /\ main'.pc \in {"exit_1", "start"}
                      /\ CapturedData' = CapturedData]_vars
  /\ [][CapturedData' # CapturedData => main.pc = "monitoring" /\ cipher_suite # NoKey]_vars

\* A second start fails on the key file (it cannot be read, or it does
\* not hold a key) with captured data of the first run on disk.
C15_Witness ==
  /\ InitFailed
  /\ main.runs = 2
  /\ \E d \in KeyDirs : key_files[d] # NoKeyFile
  /\ \E d \in Days : kwlog[d] # <<>>

\* ----------------------------------------------------------------- C16
\* C16 as claimed: a key file written by the initialization is readable
\* and writable by its owner only.
C16_NewKeyOwnerOnly ==
  \A d \in KeyDirs : key_files[d] # NoKeyFile => key_files[d].mode = "0600"

\* ----------------------------------------------------------------- C17
OwnerOnlyDirs(d) ==
  modes.base = "0700" /\ modes.daily[d] = "0700" /\ modes.screenshots[d] = "0700"

\* C17: once ensure_daily_log_dir has returned, the base log directory,
\* the partition and its Screenshots directory have mode 0700; once
\* log_keyword or save_screenshot has returned without an error, so have
\* they, and the file the call wrote has mode 0600.
C17_OwnerOnlyAfterSuccess ==
  \A c \in StoreOps :
     /\ op[c].pc \in {"ensured", "written"} => OwnerOnlyDirs(op[c].day)
     /\ op[c].pc = "idle" /\ op[c].status = "ok" =>
          /\ OwnerOnlyDirs(op[c].day)
          /\ IF c = "log_keyword" THEN modes.kwlog[op[c].day] = "0600"
             ELSE modes.shots[op[c].path] = "0600"

\* Both operations have returned successfully under a umask that leaves
\* new files and directories readable by others.
C17_Witness ==
  /\ umask = "022"
  /\ \A c \in StoreOps : op[c].pc = "idle" /\ op[c].status = "ok"

\* ----------------------------------------------------------------- C18
\* A step of ensure_daily_log_dir
EnsureStep == \E c \in StoreOps : op[c].pc \in {"idle", "made"} /\ op'[c] # op[c]
Ensured(d) == d \in dirs /\ OwnerOnlyDirs(d)

\* C18: ensure_daily_log_dir never fails because the partition exists; two
\* calls that read the same date, one after the other or both in flight,
\* return the same pair of directories; a call leaves the keyword log and
\* the screenshot files as they are, and leaves a partition that a call
\* has already ensured as it is.
C18_EnsureIdempotent ==
  /\ [](\A c \in StoreOps : op[c].status # "FileExistsError")
  /\ [](\A c1, c2 \in StoreOps :
          /\ op[c1].ensured # NoReturn
          /\ op[c2].ensured # NoReturn
          /\ op[c1].day = op[c2].day
          => op[c1].ensured = op[c2].ensured)
  /\ [][EnsureStep => /\ kwlog' = kwlog /\ shots' = shots
                      /\ modes'.kwlog = modes.kwlog /\ modes'.shots = modes.shots]_vars
  /\ [][\A d \in Days : Ensured(d) => Ensured(d)']_vars

\* log_keyword has ensured the partition a second time on a day on which
\* it has already written, while save_screenshot is inside its own call.
C18_Witness ==
  /\ op["log_keyword"].pc = "ensured"
  /\ kwlog[op["log_keyword"].day] # <<>>
  /\ op["log_keyword"].day = today
  /\ op["save_screenshot"].pc = "made"
  /\ op["save_screenshot"].day = today

\* ----------------------------------------------------------------- C19
\* C19 as claimed: with a positive interval and the stop signal unset, the
\* n-th capture tick is fired when n intervals have passed: the loop is at
\* its top exactly at the multiples of the interval, and in between no
\* more than one interval has passed since the last tick.
C19_TicksEveryInterval ==
  LET secs == IntervalSeconds(sch.interval)
  IN secs > 0 /\ ~sch.stop /\ sch.pc \notin {"not_started", "stopped"} =>
       /\ sch.ticks * secs <= sch.t
       /\ sch.t <= (sch.ticks + 1) * secs
       /\ sch.pc = "loop" => sch.t = sch.ticks * secs

\* ----------------------------------------------------------------- C20
ConfigurationWarnings ==
  Cardinality({i \in DOMAIN error_log :
                 error_log[i].message = "Screenshot interval is invalid. Scheduler not started."})

\* C20 as claimed: a scheduler whose interval is zero or negative fires no
\* tick, and once it has refused to run the error log holds exactly one
\* configuration warning.
C20_RefusesAndWarnsOnce ==
  IntervalSeconds(sch.interval) <= 0 =>
     /\ sch.ticks = 0
     /\ sch.pc = "returned" => ConfigurationWarnings = 1

\* ----------------------------------------------------------------- C21
\* C21 as claimed: whatever the loop is doing when the stop signal is set,
\* it waits no more than one slice of wait_chunk seconds after it.
C21_StopWithinOneSlice == sch.late <= wait_chunk

\* ----------------------------------------------------------------- C23
\* The lines of error.log written by the except clause of the loop
LoopErrors ==
  {i \in DOMAIN error_log : error_log[i] = ErrLine("Screenshot scheduler loop error", TRUE)}

\* C23 as claimed: an error inside the loop body does not end the loop, it
\* is logged, and while the stop signal is unset the loop goes on to a
\* tick: there is a tick between any two errors of the loop body.
C23_LoopErrorThenTick ==
  /\ sch.pc = "stopped" => sch.stop
  /\ ~sch.stop => Cardinality(LoopErrors) <= sch.ticks + 1

\* ----------------------------------------------------------------- C24
\* C24 as claimed: a tick on which the capturer returns no image appends one
\* non-critical line to error.log, writes no screenshot file, and the loop
\* goes on.
C24_NoImageLogged ==
  [][(sch'.ticks = sch.ticks + 1 /\ sch'.outcome = "no_image")
       => /\ Len(error_log') = Len(error_log) + 1
          /\ ~error_log'[Len(error_log')].critical
          /\ shots' = shots
          /\ sch'.pc = "loop"]_vars

\* ----------------------------------------------------------------- C25
\* How a call of log_keyword or save_screenshot can end without an
\* exception reaching its caller
ReturnedNormally == {"none", "ok", "logged_error"}

\* C25 as claimed: once the logger is initialized no call of log_keyword or
\* save_screenshot ends with an exception: a directory or a file that
\* cannot be made or written is an error.log line and a normal return.
C25_StoreNeverRaises ==
  \A c \in StoreOps : op[c].status \in ReturnedNormally

\* ----------------------------------------------------------------- C26
\* C26 as claimed: the agent counts as monitoring (monitoring_active, and
\* main in its sleep loop) exactly when the keystroke listener or the
\* scheduler loop is running.
C26_ActiveIffRunning ==
  main.pc = "monitoring" <=> (main.listener_alive \/ main.scheduler_alive)

\* ----------------------------------------------------------------- C22
\* C22 as claimed: once stop_monitoring_services has returned, no keyword
\* entry is appended to a keyword log and no screenshot file is written.
C22_NoProgressAfterStop ==
  [][stp.pc \in {"returned", "exited"}
       => /\ kwlog' = kwlog
          /\ shots' = shots
          /\ stp'.kw = stp.kw /\ stp'.shot = stp.shot]_vars

\* ----------------------------------------------------------------- C27
\* C27 as claimed: stop_monitoring_services returns whatever the threads
\* do, and every thread that was still alive when its join gave up has
\* been reported.
C27_UnjoinedThreadsReported ==
  stp.pc \in {"returned", "exited"} => stp.timed_out \subseteq stp.reported

\* ----------------------------------------------------------------- C28
\* Path a lies in the directory b or below it
Below(a, b) == Len(a) >= Len(b) /\ SubSeq(a, 1, Len(b)) = b

\* C28 as claimed: all lines that log_error writes during a run are in one
\* file, and that file is not inside the directory of the daily partitions.
C28_OneErrorLog ==
  /\ Cardinality(DOMAIN stp.error_files) = 1
  /\ \A path \in DOMAIN stp.error_files :
       ~Below(path, BaseLogDir(ConfigData(stp.cwd, stp.holders, stp.log_directory), stp.cwd))

\* ----------------------------------------------------------------- C30
\* The titles get_active_window_info_x11 returns when it has no title:
\* no window id, no WM_NAME, a failing xdotool, any other exception
PlaceholderTitles ==
  {"No active window", "Unknown Title", "Error (xdotool)", "Error (x11_other)"}

\* C30 as claimed: the title segment of a written entry is at most 100
\* characters long and is never one of the placeholder or failure values
\* of the active-window lookup; for those the entry has no title segment.
C30_TitleOnlyWhenReal ==
  \A d \in Days : \A i \in DOMAIN ok_calls[d] :
    LET title == ok_calls[d][i].title
    IN title.len <= 100 /\ title.text \notin PlaceholderTitles

\* ----------------------------------------------------------------- C29
\* Candidate words the user can type next: too short, logged, excluded
\* by the configured exclude word, logged
TypedWords == { <<"a">>, <<"a", "a">>, <<"a", "B">>, <<"B", "B">> }

\* The values that the message of an error.log line interpolates
Interpolated(line) == IF "values" \in DOMAIN line THEN line.values ELSE <<>>

\* error.log after submit_word has run on the candidate, in this state
ErrorsAfterWord(word_candidate) ==
  IF SubmitOutcome(word_candidate, active_window, include_processes, exclude_words) = "logged"
  THEN HandleKeywordLog(Disk, LogData(word_candidate, active_window), cipher_suite,
                        Clock(today, sec), fs).error_log
  ELSE error_log

ValidLines(file, key) ==
  {i \in DOMAIN FileLines(file) : Decrypts(key, FileLines(file)[i])}
MalformedLines(file, key) ==
  {i \in DOMAIN FileLines(file) :
     FileLines(file)[i] # <<>> /\ ~Decrypts(key, FileLines(file)[i])}
PrintedRecords(file, key) ==
  {j \in DOMAIN DecryptKeywordLog(file, key) :
     DecryptKeywordLog(file, key)[j] # DecryptionError}

\* C31 as claimed: when a keyword log at rest is read, decrypt_keyword_log
\* reports a malformed record and still prints every valid record of the
\* file, those after the malformed one included.
C31_ValidRecordsPrinted ==
  (\A t \in Threads : wr[t].pc = "idle") =>
    \A d \in Days :
      /\ Cardinality(PrintedRecords(kwlog[d], InstallKey))
           = Cardinality(ValidLines(kwlog[d], InstallKey))
      /\ MalformedLines(kwlog[d], InstallKey) # {} =>
           \E j \in DOMAIN DecryptKeywordLog(kwlog[d], InstallKey) :
             DecryptKeywordLog(kwlog[d], InstallKey)[j] = DecryptionError

\* ----------------------------------------------------------------- C32
\* C32 as claimed: the pending buffer stays below a bound that does not grow
\* with the input, because the inactivity watchdog flushes it; here, whenever
\* the watchdog has finished a check later than the buffer timeout into the
\* session, the buffer holds fewer characters than the session delivers keys.
C32_BufferBounded ==
  (now > buffer_timeout_units /\ wd_pc = "sleep" /\ wd_wake > now) =>
    Len(buffer) < MaxKeys

\* ----------------------------------------------------------------- C33
\* C33 as claimed: load_config returns the default configuration whenever the
\* config file is missing, whatever calls preceded it, and no call modifies
\* DEFAULT_CONFIG.
C33_DefaultsWhenMissing ==
  /\ DEFAULT_CONFIG = DefaultConfig
  /\ (loaded.called /\ loaded.found = NoConfigFile) => loaded.config = DefaultConfig

\* ----------------------------------------------------------------- C34
\* The call decrypted with a key the token was not made under, or a token
\* that was cut short or changed.
WrongKeyOrDamaged ==
  dec.called /\ (dec.token.key # dec.key \/ dec.token.kind # "fernet")
DecryptFailures ==
  {[error |-> "InvalidToken"], [error |-> "Encryption has not been initialized."]}

\* C34: utils.decrypt and logger.decrypt_data, given a wrong key or a
\* truncated or corrupted ciphertext, raise an error and return no data.
C34_NoDataOnFailure ==
  WrongKeyOrDamaged => dec.result \in DecryptFailures /\ "output" \notin DOMAIN dec.result

\* utils.decrypt has been given a truncated token made under the very key
\* its cipher holds, and has raised InvalidToken.
C34_Witness ==
  /\ WrongKeyOrDamaged
  /\ dec.key \in DecryptKeys
  /\ dec.fn = "utils.decrypt"
  /\ dec.token.kind = "truncated"
  /\ dec.token.key = dec.key
  /\ dec.result = [error |-> "InvalidToken"]

\* ----------------------------------------------------------------- C35
\* C35 as claimed: start_monitoring_services has been called only when the
\* configuration has eula_accepted set to true; a monitoring run with any
\* other setting has logged the critical line and exited.
C35_NoCaptureWithoutEula ==
  /\ (main.pc = "monitoring" \/ main.keystroke_started \/ main.screenshot_started)
       => config.eula_accepted = "True"
  /\ (main.args = "monitor" /\ main.pc \in {"monitoring", "exit_0", "exit_1"}
        /\ cipher_suite # NoKey /\ config.eula_accepted # "True")
       => /\ main.pc = "exit_1"
          /\ \E i \in DOMAIN error_log : error_log[i] = ErrLine("EULA not accepted.", TRUE)

\* ----------------------------------------------------------------- C36
\* C36 as claimed: however the try statement of main ends after
\* start_monitoring_services was called, the process exits with every
\* started capture stopped by stop_monitoring_services and no partial word
\* left in the buffer.
C36_StoppedAndFlushedBeforeExit ==
  mainrun.pc = "exited" =>
    /\ ~mainrun.buffered
    /\ mainrun.capture # "killed"
    /\ mainrun.scheduler # "killed"

\* ----------------------------------------------------------------- C37
\* C37 as claimed: the date in the timestamp of every keyword record is the
\* date of the partition whose keyword log holds it, and the date in every
\* screenshot's file name is the date of the partition that contains it.
C37_RecordInOwnPartition ==
  /\ \A d \in Days : \A i \in DOMAIN kwlog[d] :
       IsToken(kwlog[d][i]) => kwlog[d][i].data.timestamp.day = d
  /\ \A q \in DOMAIN shots : q.name.day = q.dir

\* ----------------------------------------------------------------- C38
\* C38 as claimed: after any sequence of start_capture and stop_capture calls
\* at most one capture session runs, and every typed word was delivered to
\* the log callback at most once.
C38_AtMostOneSession ==
  /\ Cardinality(RunningSessions(cap)) <= 1
  /\ \A w \in DOMAIN cap.delivered : cap.delivered[w] <= 1

\* ----------------------------------------------------------------- C39
\* C39 as claimed: with a non-empty include-process list every logged word
\* had all its characters typed while an included process was in front, and
\* the entry names the process the word was typed into.
IncludedApp(app) ==
  \E proc_name \in include_processes : Contains(proc_name, Lower(app))

C39_LoggedWhereTyped ==
  include_processes # {} =>
    \A i \in DOMAIN typed.logged_from :
      \A app \in typed.logged_from[i] : IncludedApp(app) /\ logged[i].app = app

\* ----------------------------------------------------------------- C40
\* C40 as claimed: when both processes have finished initialize_logger on
\* an installation that had no key file, every process that has a key uses
\* the key the key file holds.
KrFinished == \A p \in Procs : kr.procs[p].pc \in {"done", "logged", "raised"}

C40_OneKeyOnDisk ==
  KrFinished =>
    \A p \in Procs :
      kr.procs[p].pc \in {"done", "logged"} =>
        kr.procs[p].key = key_files[KeyDir].content

====
